---- MODULE Spec2Model ----
(***************************************************************************)
(* Model of the realtime command-and-simulation engine of                  *)
(* backend/app/ws.py: the lesson lifecycle, the runtime tick, the fire     *)
(* dynamics step, the command pipeline of realtime_ws_endpoint, the        *)
(* per-session lock and the command idempotency store.                     *)
(*                                                                         *)
(* Numbers.  The code computes in floats; the model uses fixed point:      *)
(*   areas in 1/100 m2, water in 1/100 l, speeds, powers and factors in    *)
(*   1/1000, time in whole seconds, time_multiplier in 1/10.               *)
(* An absent JSON key / a Python None is None (-1) for numbers and         *)
(* "NONE" for strings.                                                     *)
(***************************************************************************)
EXTENDS Integers, Sequences, FiniteSets, TLC

VARIABLES
    now,             \* utcnow(), whole seconds
    db,              \* committed rows of the simulation session
    reply,           \* what the last handler / tick answered
    pc,              \* per connection: position in realtime_ws_endpoint
    frame,           \* per connection: the command frame being processed
    session_lock,    \* session_runtime_tick_locks[session]: holder or 0
    ws_idempotency,  \* CommandIdempotencyStore._entries
    outbox,          \* per connection: frames sent to the client
    applied,         \* history: commit times of applications per cache key
    radio_jobs,      \* scheduled run_radio_transcription_job tasks
    command_times,   \* per connection: the rate limiter's timestamps
    connections_by_session,  \* ws_connections._connections_by_session
    current_session_id,      \* per connection: the local current_session_id
    bundle           \* per connection: the local bundle read for a send

connVars == <<connections_by_session, current_session_id, bundle>>

vars == <<now, db, reply, pc, frame, session_lock, ws_idempotency,
          outbox, applied, radio_jobs, command_times, connVars>>

wsVars == <<pc, frame, session_lock, ws_idempotency, outbox, applied,
            radio_jobs, command_times, connVars>>

-----------------------------------------------------------------------------
(* Bounds of the model *)

MaxNow == 12
MaxFireObjects == 2
MaxDeployments == 2
MaxTicks == 4

-----------------------------------------------------------------------------
(* Program constants *)

None == 0 - 1
NoneStr == "NONE"

SIMULATION_MAX_STEP_REAL_SEC == 4
SIMULATION_LOOP_INTERVAL_SEC == 1
LESSON_TIME_LIMIT_MIN_SEC == 300
LESSON_TIME_LIMIT_MAX_SEC == 21600
LESSON_TIME_LIMIT_DEFAULT_SEC == 1800
TIME_MULTIPLIER_MIN10 == 1
TIME_MULTIPLIER_MAX10 == 300

LESSON_LIFECYCLE_DRAFT == "DRAFT"
LESSON_LIFECYCLE_RUNNING == "RUNNING"
LESSON_LIFECYCLE_PAUSED == "PAUSED"
LESSON_LIFECYCLE_COMPLETED == "COMPLETED"
LESSON_LIFECYCLE_VALUES ==
    {LESSON_LIFECYCLE_DRAFT, LESSON_LIFECYCLE_RUNNING,
     LESSON_LIFECYCLE_PAUSED, LESSON_LIFECYCLE_COMPLETED}

SessionStatus == {"CREATED", "IN_PROGRESS", "PAUSED", "COMPLETED"}

-----------------------------------------------------------------------------
(* Small helpers *)

Min(a, b) == IF a <= b THEN a ELSE b
Max(a, b) == IF a >= b THEN a ELSE b
Clamp(x, lo, hi) == Max(lo, Min(hi, x))
Abs(x) == IF x < 0 THEN 0 - x ELSE x

\* a * b for two 1/1000 fixed-point numbers
MulM(a, b) == (a * b) \div 1000

\* Python round() of x10 / 10 for x10 >= 0: round half to even
RoundHalfEven10(x10) ==
    LET q == x10 \div 10
        r == x10 % 10
    IN  IF r < 5 THEN q
        ELSE IF r > 5 THEN q + 1
        ELSE IF q % 2 = 0 THEN q ELSE q + 1

RECURSIVE SeqSum(_)
SeqSum(s) == IF s = <<>> THEN 0 ELSE Head(s) + SeqSum(Tail(s))

-----------------------------------------------------------------------------
(* Users, roles and permissions (security/rbac.py, ws.py tables) *)

Users == {"lead", "hq"}

\* the accounts of the model, one role each
canonical_user_roles(user) ==
    IF user = "lead" THEN {"TRAINING_LEAD"}
    ELSE IF user = "rtp" THEN {"RTP"}
    ELSE IF user = "bu1" THEN {"COMBAT_AREA_1"}
    ELSE {"HQ"}

LessonCommands ==
    {"start_lesson", "pause_lesson", "resume_lesson", "finish_lesson"}

CommandNames ==
    LessonCommands \cup
    {"save_scene_checkpoint", "update_snapshot", "create_fire_object",
     "create_resource_deployment", "push_radio_message",
     "set_scene_address", "upsert_scene_floor", "set_active_scene_floor",
     "upsert_scene_object", "remove_scene_object",
     "sync_scene_to_fire_objects"}

WS_COMMAND_PERMISSIONS(command) ==
    IF command \in {"update_snapshot", "create_fire_object",
                    "create_resource_deployment", "push_radio_message"}
    THEN "state:write"
    ELSE "scene:write"

PERMISSION_MATRIX(permission) ==
    IF permission = "scene:write"
    THEN {"ADMIN", "TRAINING_LEAD"}
    ELSE {"ADMIN", "COMBAT_AREA_1", "COMBAT_AREA_2", "DISPATCHER", "HQ",
          "RTP", "TRAINING_LEAD"}

has_permission(user, permission) ==
    canonical_user_roles(user) \cap PERMISSION_MATRIX(permission) # {}

GLOBAL_SESSION_SCOPE_ROLES == {"ADMIN", "DISPATCHER", "TRAINING_LEAD"}

has_global_session_scope(user) ==
    canonical_user_roles(user) \cap GLOBAL_SESSION_SCOPE_ROLES # {}

\* assert_session_scope: FALSE where the code raises 403; d.user_session_id
\* is User.session_id of the accounts without global scope
assert_session_scope(d, user, session_id) ==
    \/ has_global_session_scope(user)
    \/ /\ d.user_session_id # NoneStr
       /\ d.user_session_id = session_id

WS_COMMAND_ALLOWED_ROLES(command) ==
    IF command \in {"create_resource_deployment", "push_radio_message"}
    THEN {"ADMIN", "TRAINING_LEAD", "DISPATCHER", "RTP", "HQ",
          "COMBAT_AREA_1", "COMBAT_AREA_2"}
    ELSE IF command = "update_snapshot"
    THEN {"ADMIN", "TRAINING_LEAD", "DISPATCHER"}
    ELSE {"ADMIN", "TRAINING_LEAD"}

assert_role_allowed_for_command(user, command) ==
    canonical_user_roles(user) \cap WS_COMMAND_ALLOWED_ROLES(command) # {}

-----------------------------------------------------------------------------
(* The lesson document snapshot_data["training_lesson"] *)

EmptyLesson ==
    [lifecycle_status |-> NoneStr,
     status |-> NoneStr,
     started_at |-> None,
     last_tick_at |-> None,
     elapsed_game_sec |-> None,
     time_limit_sec |-> None,
     completed_reason |-> NoneStr]

normalize_lesson_lifecycle_status(raw_lifecycle_status, raw_legacy_status) ==
    IF raw_lifecycle_status \in LESSON_LIFECYCLE_VALUES
    THEN raw_lifecycle_status
    ELSE IF raw_legacy_status \in {"IN_PROGRESS", LESSON_LIFECYCLE_RUNNING}
    THEN LESSON_LIFECYCLE_RUNNING
    ELSE IF raw_legacy_status \in {"PAUSED"}
    THEN LESSON_LIFECYCLE_PAUSED
    ELSE IF raw_legacy_status \in {"COMPLETED"}
    THEN LESSON_LIFECYCLE_COMPLETED
    ELSE LESSON_LIFECYCLE_DRAFT

lesson_legacy_status_from_lifecycle(lifecycle_status) ==
    IF lifecycle_status = LESSON_LIFECYCLE_RUNNING THEN "IN_PROGRESS"
    ELSE IF lifecycle_status = LESSON_LIFECYCLE_PAUSED THEN "PAUSED"
    ELSE IF lifecycle_status = LESSON_LIFECYCLE_COMPLETED THEN "COMPLETED"
    ELSE "CREATED"

\* the lifecycle a reader of the snapshot sees
LifecycleOf(d) ==
    normalize_lesson_lifecycle_status(d.lesson.lifecycle_status,
                                      d.lesson.status)

-----------------------------------------------------------------------------
(* Physics constants (physics_config.py), fixed point 1/1000 unless noted *)

FIRE_GROWTH_RATE(kind) == IF kind = "FIRE_SEAT" THEN 170 ELSE 120
SUPPRESSION_FLOW_COEFF == 340
SMOKE_GROWTH_COEFF == 7
SMOKE_DRIFT_COEFF == 180
SMOKE_WIND_COEFF == 160
SMOKE_SUPPRESSION_COEFF == 120
TEMP_BASE_C == 20
TEMP_FACTOR_PER_C == 14
TEMP_FACTOR_MIN == 680
TEMP_FACTOR_MAX == 1450
HUMIDITY_BASE_PCT == 40
HUMIDITY_FACTOR_PER_PCT10 == 45
HUMIDITY_FACTOR_MIN == 720
HUMIDITY_FACTOR_MAX == 1220
WIND_NORMALIZATION_MS == 18
WIND_FACTOR_CAP == 900
PRECIPITATION_HEAVY_GROWTH_FACTOR == 720
PRECIPITATION_LIGHT_GROWTH_FACTOR == 900
PRECIPITATION_HEAVY_SUPPRESSION_BOOST == 1180
RANK_GROWTH_BASE == 820
RANK_GROWTH_PER_RANK == 190
POWER_GROWTH_BASE == 750
POWER_GROWTH_PER_UNIT == 550
WIND_ALIGN_MIN == 820
WIND_ALIGN_RANGE == 360
GROWTH_FACTOR_MIN == 450
GROWTH_FACTOR_MAX == 4200
FIRE_WEIGHT_RANK_BASE == 850
FIRE_WEIGHT_RANK_COEFF == 220
FIRE_WEIGHT_POWER_BASE == 750
FIRE_WEIGHT_POWER_COEFF == 350
SUPPRESSION_RESIST_RANK_BASE == 1000
SUPPRESSION_RESIST_RANK_PER == 160
SUPPRESSION_RESIST_POWER_BASE == 800
SUPPRESSION_RESIST_POWER_COEFF == 250
SUPPRESSION_RESIST_MIN == 350
FIRE_SEAT_DEFAULT_SPEED == 3000
FIRE_ZONE_DEFAULT_SPEED == 2000
\* areas, 1/100 m2
FIRE_MIN_AREA == 300
FIRE_ACTIVE_AREA_THRESHOLD == 80
BUILDING_AREA_FALLBACK_PER == 80000
BUILDING_AREA_FALLBACK_GLOBAL == 200000
FIRE_MAX_AREA_FLOOR == 400
FIRE_MAX_AREA_CEILING == 2000000
SMOKE_MIN_AREA == 400
SMOKE_MIN_SPEED == 550
SMOKE_ACTIVE_FIRE_AREA_THRESHOLD == 50
SMOKE_ACTIVE_AREA_THRESHOLD == 1200
SMOKE_MAX_AREA_FLOOR == 800
SMOKE_MAX_AREA_CEILING == 2600000
\* water, 1/100 l
DEFAULT_VEHICLE_WATER_AC == 320000

HeavyPrecipitation == {"rain", "drizzle", "snow", "hail", "storm"}
LightPrecipitation == {"mist", "fog"}

DefaultWeather ==
    [wind_speed |-> 5000, wind_dir |-> 90, temperature |-> 20,
     humidity |-> 45, precipitation |-> ""]

-----------------------------------------------------------------------------
(* Scene: the fire sources and the closed polygons of training_lead_scene. *)
(* A position is a named cell; a polygon lists the cells inside it.        *)

\* floors: the list scene["floors"], each floor with its list of objects of
\* the kinds that are no fire source (fire sources are kept in fire_sources)
EmptyScene ==
    [fire_sources |-> <<>>, polygons |-> <<>>, address |-> NoneStr,
     active_floor_id |-> "F1", floors |-> <<>>]

SceneOneSource ==
    [fire_sources |-> <<[id |-> "obj1", cell |-> "A", fire_rank |-> 1,
                         fire_power |-> 1000]>>,
     polygons |-> <<[area_m2 |-> 4000, cells |-> {"A"}]>>,
     address |-> NoneStr, active_floor_id |-> "F1", floors |-> <<>>]

\* extract_containment_polygons_from_scene keeps the polygons sorted by
\* area; the tick takes the first (smallest) one containing the centre.
ContainingPolygonArea(scene, cell) ==
    LET inside == {i \in 1..Len(scene.polygons) :
                       cell \in scene.polygons[i].cells}
    IN  IF inside = {} THEN 0
        ELSE LET best == CHOOSE i \in inside :
                            \A j \in inside :
                               scene.polygons[i].area_m2
                                   <= scene.polygons[j].area_m2
             IN  scene.polygons[best].area_m2

base_area_by_rank(rank) ==
    IF rank = 1 THEN 1600
    ELSE IF rank = 2 THEN 2600
    ELSE IF rank = 3 THEN 4000
    ELSE IF rank = 4 THEN 5800
    ELSE IF rank = 5 THEN 7800
    ELSE 2600

\* FireObject row created by apply_sync_scene_to_fire_objects_command
SceneFireObject(src) ==
    [kind |-> "FIRE_SEAT",
     area_m2 |-> MulM(base_area_by_rank(src.fire_rank),
                      Max(700, src.fire_power)),
     spread_speed_m_min |-> FIRE_SEAT_DEFAULT_SPEED,
     spread_azimuth |-> None,
     is_active |-> TRUE,
     fire_rank |-> src.fire_rank,
     fire_power |-> src.fire_power,
     max_area_m2 |-> None,
     source |-> "ws:scene_sync",
     cell |-> src.cell]

-----------------------------------------------------------------------------
(* apply_fire_dynamics_tick *)

IsActiveFire(f) == f.is_active /\ f.kind \in {"FIRE_SEAT", "FIRE_ZONE"}
IsActiveSmoke(f) == f.is_active /\ f.kind = "SMOKE_ZONE"

OrDefault(x, fallback) == IF x = None THEN fallback ELSE x

temp_factor(weather) ==
    Clamp(1000 + (weather.temperature - TEMP_BASE_C) * TEMP_FACTOR_PER_C,
          TEMP_FACTOR_MIN, TEMP_FACTOR_MAX)

humidity_factor(weather) ==
    LET humidity == Clamp(weather.humidity, 0, 100)
        diff10 == (humidity - HUMIDITY_BASE_PCT) * HUMIDITY_FACTOR_PER_PCT10
        diff == IF diff10 >= 0 THEN diff10 \div 10
                ELSE 0 - ((0 - diff10) \div 10)
    IN  Clamp(1000 - diff, HUMIDITY_FACTOR_MIN, HUMIDITY_FACTOR_MAX)

wind_factor(weather) ==
    1000 + Min(WIND_FACTOR_CAP,
               Max(0, weather.wind_speed) \div WIND_NORMALIZATION_MS)

precipitation_factor(weather) ==
    IF weather.precipitation \in HeavyPrecipitation
    THEN PRECIPITATION_HEAVY_GROWTH_FACTOR
    ELSE IF weather.precipitation \in LightPrecipitation
    THEN PRECIPITATION_LIGHT_GROWTH_FACTOR
    ELSE 1000

weather_growth_factor(weather) ==
    Clamp(MulM(MulM(MulM(wind_factor(weather), temp_factor(weather)),
                    humidity_factor(weather)),
               precipitation_factor(weather)),
          GROWTH_FACTOR_MIN, GROWTH_FACTOR_MAX)

suppression_weather_boost(weather) ==
    IF weather.precipitation \in HeavyPrecipitation
    THEN PRECIPITATION_HEAVY_SUPPRESSION_BOOST
    ELSE 1000

clamp_fire_rank(f) == Clamp(OrDefault(f.fire_rank, 1), 1, 5)
clamp_fire_power(f) == Clamp(OrDefault(f.fire_power, 1000), 350, 4000)

\* the bound max_area_m2 the tick derives for one fire (1/100 m2)
derive_max_area_m2(f, current_area, scene) ==
    LET from_extra == IF f.max_area_m2 = None THEN 0 ELSE f.max_area_m2
        polygon_area == ContainingPolygonArea(scene, f.cell)
        bounded == IF polygon_area > 0
                   THEN (IF from_extra > 0
                         THEN Min(from_extra, polygon_area)
                         ELSE polygon_area)
                   ELSE from_extra
    IN  IF bounded > 0
        THEN Clamp(bounded, FIRE_MAX_AREA_FLOOR, FIRE_MAX_AREA_CEILING)
        ELSE Max(FIRE_MIN_AREA,
                 Min(BUILDING_AREA_FALLBACK_GLOBAL,
                     current_area + BUILDING_AREA_FALLBACK_PER))

growth_factor(f, weather) ==
    LET spread_azimuth == OrDefault(f.spread_azimuth, weather.wind_dir % 360)
        azimuth_delta ==
            Abs(((spread_azimuth - (weather.wind_dir % 360) + 180) % 360)
                - 180)
        wind_alignment_factor ==
            WIND_ALIGN_MIN
              + (WIND_ALIGN_RANGE * (180 - azimuth_delta)) \div 180
        rank_growth_factor ==
            RANK_GROWTH_BASE + clamp_fire_rank(f) * RANK_GROWTH_PER_RANK
        power_growth_factor ==
            POWER_GROWTH_BASE + MulM(clamp_fire_power(f),
                                     POWER_GROWTH_PER_UNIT)
    IN  Clamp(MulM(MulM(MulM(weather_growth_factor(weather),
                             wind_alignment_factor),
                        rank_growth_factor),
                   power_growth_factor),
              GROWTH_FACTOR_MIN, GROWTH_FACTOR_MAX)

fire_spread_speed(f) ==
    Max(250, OrDefault(f.spread_speed_m_min,
                       IF f.kind = "FIRE_SEAT"
                       THEN FIRE_SEAT_DEFAULT_SPEED
                       ELSE FIRE_ZONE_DEFAULT_SPEED))

\* area_growth in 1/100 m2
area_growth(f, weather, dt_game_sec) ==
    MulM(MulM(fire_spread_speed(f), FIRE_GROWTH_RATE(f.kind)) * dt_game_sec,
         growth_factor(f, weather)) \div 10

fire_weight(f) ==
    LET current_area == Max(500, OrDefault(f.area_m2, 2500))
    IN  MulM(MulM(current_area,
                  FIRE_WEIGHT_RANK_BASE
                    + clamp_fire_rank(f) * FIRE_WEIGHT_RANK_COEFF),
             FIRE_WEIGHT_POWER_BASE
               + MulM(clamp_fire_power(f), FIRE_WEIGHT_POWER_COEFF))

suppression_resistance(f) ==
    Max(SUPPRESSION_RESIST_MIN,
        MulM(SUPPRESSION_RESIST_RANK_BASE
               + (clamp_fire_rank(f) - 1) * SUPPRESSION_RESIST_RANK_PER,
             SUPPRESSION_RESIST_POWER_BASE
               + MulM(clamp_fire_power(f), SUPPRESSION_RESIST_POWER_COEFF)))

\* next_area of one active fire before the upper clamp (1/100 m2)
unclamped_next_area(f, weather, dt_game_sec, effective_suppression) ==
    Max(0, Max(FIRE_MIN_AREA, OrDefault(f.area_m2, 2500))
             + area_growth(f, weather, dt_game_sec)
             - effective_suppression)

clamp_next_area(next_area, max_area_m2) ==
    IF max_area_m2 > 0 THEN Min(next_area, max_area_m2) ELSE next_area

\* one active FIRE_SEAT / FIRE_ZONE row after the tick
tick_fire_object(f, weather, scene, dt_game_sec, suppression_share) ==
    LET current_area == Max(FIRE_MIN_AREA, OrDefault(f.area_m2, 2500))
        max_area_m2 == derive_max_area_m2(f, current_area, scene)
        effective_suppression ==
            (suppression_share * 1000) \div suppression_resistance(f)
        next_area ==
            clamp_next_area(
                unclamped_next_area(f, weather, dt_game_sec,
                                    effective_suppression),
                max_area_m2)
        next_speed ==
            Max(200, fire_spread_speed(f)
                       + weather.wind_speed \div 100
                       + (clamp_fire_rank(f) - 1) * 30
                       + IF clamp_fire_power(f) >= 1000
                         THEN ((clamp_fire_power(f) - 1000) * 80) \div 1000
                         ELSE 0 - (((1000 - clamp_fire_power(f)) * 80)
                                      \div 1000)
                       - (effective_suppression * 15) \div 100)
    IN  [f EXCEPT !.area_m2 = next_area,
                  !.spread_speed_m_min = next_speed,
                  !.is_active = next_area > FIRE_ACTIVE_AREA_THRESHOLD,
                  !.max_area_m2 = max_area_m2]

\* the SMOKE_ZONE row the tick spawns from the first active fire
auto_smoke(source) ==
    [kind |-> "SMOKE_ZONE",
     area_m2 |-> Max(2500, (OrDefault(IF source.area_m2 = 0 THEN None
                                      ELSE source.area_m2, 2500) * 12)
                              \div 10),
     spread_speed_m_min |->
         Max(800, (OrDefault(IF source.spread_speed_m_min = 0 THEN None
                             ELSE source.spread_speed_m_min, 1000) * 65)
                     \div 100),
     spread_azimuth |-> source.spread_azimuth,
     is_active |-> TRUE,
     fire_rank |-> None,
     fire_power |-> None,
     max_area_m2 |-> None,
     source |-> "ws:runtime_auto_smoke",
     cell |-> source.cell]

smoke_weather_factor(weather) ==
    Clamp(MulM(MulM(850 + Min(500, weather.wind_speed \div 16),
                    900 + ((temp_factor(weather) - 1000) * 6) \div 10),
               950 + ((1000 - humidity_factor(weather)) * 4) \div 10),
          550, 1900)

\* one active SMOKE_ZONE row after the tick
tick_smoke_object(smoke, weather, dt_game_sec, post_fire_area_sum, suppression_budget_area) ==
    LET current_area == Max(SMOKE_MIN_AREA, OrDefault(smoke.area_m2, 3200))
        from_extra == IF smoke.max_area_m2 = None THEN 0
                      ELSE smoke.max_area_m2
        derived == IF from_extra <= 0 /\ post_fire_area_sum > 0
                   THEN (post_fire_area_sum * 16) \div 10
                   ELSE from_extra
        smoke_max_area_m2 ==
            IF derived > 0
            THEN Clamp(derived, SMOKE_MAX_AREA_FLOOR, SMOKE_MAX_AREA_CEILING)
            ELSE derived
        spread_speed ==
            Max(SMOKE_MIN_SPEED, OrDefault(smoke.spread_speed_m_min, 1200))
        \* (post * 0.007 + speed * 0.18 + wind * 0.16) in 1/1000 m2 per s
        rate == (post_fire_area_sum * SMOKE_GROWTH_COEFF) \div 100
                  + MulM(spread_speed, SMOKE_DRIFT_COEFF)
                  + MulM(weather.wind_speed, SMOKE_WIND_COEFF)
        smoke_growth ==
            MulM(rate * dt_game_sec, smoke_weather_factor(weather)) \div 10
        base_dissipation ==
            MulM(suppression_budget_area, SMOKE_SUPPRESSION_COEFF)
        smoke_dissipation ==
            IF precipitation_factor(weather) < 1000
            THEN (base_dissipation * 115) \div 100
            ELSE base_dissipation
        next_area ==
            clamp_next_area(
                Max(SMOKE_MIN_AREA,
                    current_area + smoke_growth - smoke_dissipation),
                smoke_max_area_m2)
    IN  [smoke EXCEPT
            !.area_m2 = next_area,
            !.spread_speed_m_min =
                Max(SMOKE_MIN_SPEED,
                    spread_speed + (weather.wind_speed * 6) \div 1000),
            !.is_active =
                post_fire_area_sum > SMOKE_ACTIVE_FIRE_AREA_THRESHOLD
                  \/ next_area > SMOKE_ACTIVE_AREA_THRESHOLD]

\* apply_fire_dynamics_tick: result [raised, d].  raised models the
\* AttributeError of ResourceKind.HOSE_SPLITTER (enums.py has no such
\* member), evaluated for the first deployment row of the snapshot.
\* With no deployment rows there are no vehicle, hose or nozzle entries:
\* effective flow and the suppression budget are 0, vehicle_runtime is
\* kept and nozzle_runtime is rewritten empty.
apply_fire_dynamics_tick(d, dt_game_sec) ==
    IF d.fire_objects = <<>> THEN [raised |-> FALSE, d |-> d]
    ELSE IF d.deployments # <<>> THEN [raised |-> TRUE, d |-> d]
    ELSE
      LET fires == d.fire_objects
          active_fire_objects ==
              {i \in DOMAIN fires : IsActiveFire(fires[i])}
          smoke_missing ==
              active_fire_objects # {}
                /\ ~ \E i \in DOMAIN fires : IsActiveSmoke(fires[i])
          source == CHOOSE i \in active_fire_objects :
                       \A j \in active_fire_objects : i <= j
          with_smoke == IF smoke_missing
                        THEN Append(fires, auto_smoke(fires[source]))
                        ELSE fires
          suppression_budget_area == 0
          ticked(i) == tick_fire_object(fires[i], d.weather, d.scene,
                                        dt_game_sec, 0)
          post_fire_area_sum ==
              SeqSum([i \in DOMAIN fires |->
                        IF i \in active_fire_objects /\ ticked(i).is_active
                        THEN ticked(i).area_m2 ELSE 0])
          next_fires ==
              [i \in DOMAIN with_smoke |->
                 IF i \in active_fire_objects THEN ticked(i)
                 ELSE IF IsActiveSmoke(with_smoke[i])
                 THEN tick_smoke_object(with_smoke[i], d.weather,
                                        dt_game_sec, post_fire_area_sum,
                                        suppression_budget_area)
                 ELSE with_smoke[i]]
      IN  [raised |-> FALSE,
           d |-> [d EXCEPT !.fire_objects = next_fires,
                           !.nozzle_runtime = {},
                           !.hose_runtime = {}]]

-----------------------------------------------------------------------------
(* apply_lesson_runtime_tick_for_session *)

delta_game_sec_of(delta_real_sec, time_multiplier) ==
    Max(1, RoundHalfEven10(
               delta_real_sec * Clamp(time_multiplier, TIME_MULTIPLIER_MIN10,
                                      TIME_MULTIPLIER_MAX10)))

\* the part of the tick after apply_fire_dynamics_tick returned `fire`
lesson_tick_after_fire(d, t, fire, raw_delta_real_sec, delta_game_sec) ==
    LET delta_real_sec == Min(raw_delta_real_sec, SIMULATION_MAX_STEP_REAL_SEC)
        dropped_ticks_last == Max(0, raw_delta_real_sec - delta_real_sec)
        elapsed_game_sec ==
            OrDefault(d.lesson.elapsed_game_sec, 0) + delta_game_sec
        time_limit_sec == d.lesson.time_limit_sec
        timeout_reached ==
            time_limit_sec # None /\ time_limit_sec > 0
              /\ elapsed_game_sec >= time_limit_sec
        lifecycle_status == IF timeout_reached THEN LESSON_LIFECYCLE_COMPLETED
                            ELSE LESSON_LIFECYCLE_RUNNING
    IN  IF fire.raised
        THEN [updated |-> FALSE, raised |-> TRUE, d |-> d]
        ELSE [updated |-> TRUE, raised |-> FALSE,
              d |-> [fire.d EXCEPT
                        !.health =
                            [ticks_total |-> d.health.ticks_total + 1,
                             dropped_ticks_last |-> dropped_ticks_last,
                             dropped_ticks_total |->
                                 d.health.dropped_ticks_total
                                   + dropped_ticks_last],
                        !.lesson =
                            [d.lesson EXCEPT
                                !.lifecycle_status = lifecycle_status,
                                !.status =
                                    lesson_legacy_status_from_lifecycle(
                                        lifecycle_status),
                                !.elapsed_game_sec = elapsed_game_sec,
                                !.last_tick_at = t,
                                !.completed_reason =
                                    IF timeout_reached THEN "timeout" ELSE @],
                        !.status = IF timeout_reached THEN "COMPLETED"
                                   ELSE d.status]]

\* the tick once the elapsed real time raw_delta_real_sec is known
lesson_tick_for_delta(d, t, raw_delta_real_sec, delta_game_sec) ==
    IF raw_delta_real_sec <= 0
    THEN [updated |-> FALSE, raised |-> FALSE, d |-> d]
    ELSE lesson_tick_after_fire(
             d, t, apply_fire_dynamics_tick(d, delta_game_sec),
             raw_delta_real_sec, delta_game_sec)

\* a mutation of get_or_create_current_snapshot: with no current row every
\* row of the session becomes current
get_or_create_current_snapshot_all(d) ==
    IF \E i \in DOMAIN d.snapshots : d.snapshots[i] THEN d
    ELSE IF d.snapshots # <<>>
    THEN [d EXCEPT !.snapshots = [i \in DOMAIN @ |-> TRUE]]
    ELSE [d EXCEPT !.snapshots = <<TRUE>>]

\* d.snapshots holds is_current of the session's snapshot rows, ordered by
\* captured_at: the current row if there is one, else the latest row made
\* current, else a new current row
get_or_create_current_snapshot(d) ==
    IF \E i \in DOMAIN d.snapshots : d.snapshots[i] THEN d
    ELSE IF d.snapshots # <<>>
    THEN [d EXCEPT !.snapshots[Len(d.snapshots)] = TRUE]
    ELSE [d EXCEPT !.snapshots = <<TRUE>>]

\* a mutation of lesson_tick_of_snapshot: the game step is taken from the
\* whole gap, not from the clamped one
lesson_tick_of_snapshot_unclamped(d, t) ==
    IF LifecycleOf(d) # LESSON_LIFECYCLE_RUNNING
    THEN [updated |-> FALSE, raised |-> FALSE, d |-> d]
    ELSE lesson_tick_for_delta(
             d, t,
             t - OrDefault(d.lesson.last_tick_at,
                           OrDefault(d.lesson.started_at, t)),
             delta_game_sec_of(
                 t - OrDefault(d.lesson.last_tick_at,
                               OrDefault(d.lesson.started_at, t)),
                 d.time_multiplier))

\* the tick of the snapshot get_or_create_current_snapshot returned
lesson_tick_of_snapshot(d, t) ==
    IF LifecycleOf(d) # LESSON_LIFECYCLE_RUNNING
    THEN [updated |-> FALSE, raised |-> FALSE, d |-> d]
    ELSE lesson_tick_for_delta(
             d, t,
             t - OrDefault(d.lesson.last_tick_at,
                           OrDefault(d.lesson.started_at, t)),
             delta_game_sec_of(
                 Min(t - OrDefault(d.lesson.last_tick_at,
                                   OrDefault(d.lesson.started_at, t)),
                     SIMULATION_MAX_STEP_REAL_SEC),
                 d.time_multiplier))

\* result [updated, raised, d]; t is utcnow()
apply_lesson_runtime_tick_for_session(d, t) ==
    IF d.status # "IN_PROGRESS"
    THEN [updated |-> FALSE, raised |-> FALSE, d |-> d]
    ELSE lesson_tick_of_snapshot(get_or_create_current_snapshot(d), t)

-----------------------------------------------------------------------------
(* Command handlers: result [code, d], code 200 when the handler returned *)

Ok(d) == [code |-> 200, d |-> d]
Rejected(code, d) == [code |-> code, d |-> d]

apply_save_scene_checkpoint_command(d, mark_lesson_started, t) ==
    IF mark_lesson_started
    THEN Ok([d EXCEPT !.lesson =
                [EmptyLesson EXCEPT
                    !.lifecycle_status = LESSON_LIFECYCLE_RUNNING,
                    !.status = lesson_legacy_status_from_lifecycle(
                                   LESSON_LIFECYCLE_RUNNING),
                    !.started_at = t,
                    !.last_tick_at = t]])
    ELSE Ok(d)

RECURSIVE SelectSeq2(_, _)
SelectSeq2(s, keep) ==
    IF s = <<>> THEN <<>>
    ELSE IF Head(s).source \in keep
    THEN <<Head(s)>> \o SelectSeq2(Tail(s), keep)
    ELSE SelectSeq2(Tail(s), keep)

AllSources ==
    {"ws:scene_object", "ws:scene_sync", "ws:create_fire_object",
     "ws:runtime_auto_smoke"}

apply_sync_scene_to_fire_objects_command(d) ==
    LET kept == SelectSeq2(d.fire_objects,
                           AllSources \ {"ws:scene_object", "ws:scene_sync"})
        synced == [i \in DOMAIN d.scene.fire_sources |->
                      SceneFireObject(d.scene.fire_sources[i])]
    IN  Ok([d EXCEPT !.fire_objects = kept \o synced])

parse_lesson_start_settings(time_limit_sec) ==
    Clamp(OrDefault(time_limit_sec, LESSON_TIME_LIMIT_DEFAULT_SEC),
          LESSON_TIME_LIMIT_MIN_SEC, LESSON_TIME_LIMIT_MAX_SEC)

apply_start_lesson_command(d, time_limit_sec, t) ==
    IF d.status \in {"IN_PROGRESS", "PAUSED", "COMPLETED"}
    THEN Rejected(409, d)
    ELSE
      LET marked == apply_save_scene_checkpoint_command(d, TRUE, t).d
          synced == apply_sync_scene_to_fire_objects_command(marked).d
      IN  Ok([synced EXCEPT
                !.lesson = [synced.lesson EXCEPT
                    !.lifecycle_status = LESSON_LIFECYCLE_RUNNING,
                    !.status = lesson_legacy_status_from_lifecycle(
                                   LESSON_LIFECYCLE_RUNNING),
                    !.started_at = t,
                    !.last_tick_at = t,
                    !.time_limit_sec =
                        parse_lesson_start_settings(time_limit_sec)],
                !.status = "IN_PROGRESS"])

apply_pause_lesson_command(d, t) ==
    IF d.status # "IN_PROGRESS" THEN Rejected(409, d)
    ELSE IF LifecycleOf(d) # LESSON_LIFECYCLE_RUNNING THEN Rejected(409, d)
    ELSE Ok([d EXCEPT
                !.lesson = [d.lesson EXCEPT
                    !.lifecycle_status = LESSON_LIFECYCLE_PAUSED,
                    !.status = lesson_legacy_status_from_lifecycle(
                                   LESSON_LIFECYCLE_PAUSED)],
                !.status = "PAUSED"])

\* a mutation of apply_resume_lesson_command: last_tick_at is left alone
apply_resume_lesson_command_stale(d, t) ==
    IF d.status # "PAUSED" THEN Rejected(409, d)
    ELSE IF LifecycleOf(d) \notin
              {LESSON_LIFECYCLE_PAUSED, LESSON_LIFECYCLE_RUNNING}
    THEN Rejected(409, d)
    ELSE Ok([d EXCEPT
                !.lesson = [d.lesson EXCEPT
                    !.lifecycle_status = LESSON_LIFECYCLE_RUNNING,
                    !.status = lesson_legacy_status_from_lifecycle(
                                   LESSON_LIFECYCLE_RUNNING)],
                !.status = "IN_PROGRESS"])

apply_resume_lesson_command(d, t) ==
    IF d.status # "PAUSED" THEN Rejected(409, d)
    ELSE IF LifecycleOf(d) \notin
              {LESSON_LIFECYCLE_PAUSED, LESSON_LIFECYCLE_RUNNING}
    THEN Rejected(409, d)
    ELSE Ok([d EXCEPT
                !.lesson = [d.lesson EXCEPT
                    !.lifecycle_status = LESSON_LIFECYCLE_RUNNING,
                    !.status = lesson_legacy_status_from_lifecycle(
                                   LESSON_LIFECYCLE_RUNNING),
                    !.last_tick_at = t],
                !.status = "IN_PROGRESS"])

apply_finish_lesson_command(d, t) ==
    IF d.status \notin {"IN_PROGRESS", "PAUSED"} THEN Rejected(409, d)
    ELSE Ok([d EXCEPT
                !.lesson = [d.lesson EXCEPT
                    !.lifecycle_status = LESSON_LIFECYCLE_COMPLETED,
                    !.status = lesson_legacy_status_from_lifecycle(
                                   LESSON_LIFECYCLE_COMPLETED),
                    !.started_at = OrDefault(d.lesson.started_at, t)],
                !.status = "COMPLETED"])

-----------------------------------------------------------------------------
(* Payloads.  A command frame is [name, arg]; arg names one payload.       *)

VehicleIds == {1}

\* fallback_vehicle_water_capacity of the vehicle dictionary row (an AC)
fallback_vehicle_water_capacity(vehicle_id) == DEFAULT_VEHICLE_WATER_AC

\* channel_speakers["1"] of radio_runtime; NoSpeaker is the absent key
NoSpeaker == [user_id |-> NoneStr, last_seen_at |-> 0]

ZeroHealth ==
    [ticks_total |-> 0, dropped_ticks_last |-> 0, dropped_ticks_total |-> 0]

CommandArgs(command) ==
    IF command = "start_lesson" THEN {"default", "tl100"}
    ELSE IF command = "save_scene_checkpoint" THEN {"plain", "mark"}
    ELSE IF command = "update_snapshot"
    THEN {"notes", "wipe", "lesson_running", "refill"}
    ELSE IF command = "create_fire_object" THEN {"seat", "oversize_inactive"}
    ELSE IF command = "create_resource_deployment"
    THEN {"vehicle", "nozzle_strict"}
    ELSE IF command = "push_radio_message" THEN {"voice"}
    ELSE {"none"}

\* payload.time_limit_sec of start_lesson
StartTimeLimit(arg) == IF arg = "tl100" THEN 100 ELSE None

\* payload of create_fire_object
FireObjectPayload(arg) ==
    IF arg = "seat"
    THEN [kind |-> "FIRE_SEAT", area_m2 |-> 2000,
          spread_speed_m_min |-> None, spread_azimuth |-> None,
          is_active |-> TRUE, fire_rank |-> None, fire_power |-> None,
          max_area_m2 |-> None, source |-> "ws:create_fire_object",
          cell |-> "B"]
    ELSE [kind |-> "FIRE_ZONE", area_m2 |-> 5000,
          spread_speed_m_min |-> None, spread_azimuth |-> None,
          is_active |-> FALSE, fire_rank |-> None, fire_power |-> None,
          max_area_m2 |-> 1000, source |-> "ws:create_fire_object",
          cell |-> "B"]

\* payload of create_resource_deployment
DeploymentPayload(arg) ==
    LET base == [resource_kind |-> "NOZZLE", status |-> "ACTIVE",
                 vehicle_dictionary_id |-> None, strict_chain |-> TRUE,
                 linked_hose_line_id |-> NoneStr, plan_only |-> FALSE,
                 role |-> NoneStr, command_point |-> NoneStr,
                 linked_splitter_id |-> NoneStr]
    IN  IF arg = "vehicle"
        THEN [base EXCEPT !.resource_kind = "VEHICLE",
                          !.status = "DEPLOYED",
                          !.vehicle_dictionary_id = 1,
                          !.strict_chain = FALSE]
        ELSE IF arg = "vehicle_completed"
        THEN [base EXCEPT !.resource_kind = "VEHICLE",
                          !.status = "COMPLETED",
                          !.vehicle_dictionary_id = 1,
                          !.strict_chain = FALSE]
        ELSE IF arg = "marker_bu1"
        THEN [base EXCEPT !.resource_kind = "MARKER",
                          !.status = "DEPLOYED",
                          !.strict_chain = FALSE,
                          !.role = "RTP",
                          !.command_point = "BU1"]
        ELSE IF arg = "nozzle_on_splitter"
        THEN [base EXCEPT !.linked_hose_line_id = "hose1",
                          !.linked_splitter_id = "splitter1"]
        ELSE base

\* the row the first query of get_or_create_current_snapshot returns: the
\* latest of the current rows
CurrentSnapshot(snapshots) ==
    CHOOSE i \in DOMAIN snapshots :
       /\ snapshots[i]
       /\ \A j \in DOMAIN snapshots : snapshots[j] => j <= i

\* payload.snapshot_data of update_snapshot, as the document that replaces
\* snapshot_data: the client's copy of the current document with one edit
apply_update_snapshot_command(d, arg) ==
    IF arg = "wipe"
    THEN Ok([d EXCEPT !.lesson = EmptyLesson,
                      !.health = ZeroHealth,
                      !.vehicle_runtime = [v \in VehicleIds |-> None],
                      !.nozzle_runtime = {},
                      !.hose_runtime = {},
                      !.scene = EmptyScene,
                      !.radio_logs = <<>>,
                      !.channel_speakers = NoSpeaker,
                      !.journal = 0])
    ELSE IF arg = "lesson_running"
    THEN Ok([d EXCEPT !.lesson =
                [d.lesson EXCEPT
                    !.lifecycle_status = LESSON_LIFECYCLE_RUNNING,
                    !.status = "IN_PROGRESS",
                    !.elapsed_game_sec = 400,
                    !.time_limit_sec = 300]])
    ELSE IF arg = "refill"
    THEN Ok([d EXCEPT !.vehicle_runtime = [v \in VehicleIds |-> 500000]])
    ELSE IF arg = "dry_runtime"
    THEN Ok([d EXCEPT
                !.nozzle_runtime =
                    {[deployment |-> 1, has_water |-> FALSE,
                      blocked_reason |-> NoneStr, effective_flow_l_s |-> 0]},
                !.hose_runtime =
                    {[deployment |-> 2, has_water |-> FALSE,
                      blocked_reason |-> NoneStr]}])
    ELSE IF arg = "current"
    THEN Ok([d EXCEPT !.snapshots =
                [i \in DOMAIN @ |-> i = CurrentSnapshot(d.snapshots)]])
    ELSE IF arg = "not_current"
    THEN Ok([d EXCEPT !.snapshots[CurrentSnapshot(d.snapshots)] = FALSE])
    ELSE Ok(d)

apply_create_fire_object_command(d, arg) ==
    Ok([d EXCEPT !.fire_objects = Append(@, FireObjectPayload(arg))])

is_dispatcher_vehicle_dispatch(user, deployment) ==
    /\ deployment.resource_kind = "VEHICLE"
    /\ deployment.status = "EN_ROUTE"
    /\ \/ deployment.role = "DISPATCHER"
       \/ "DISPATCHER" \in canonical_user_roles(user)

\* 200 when the workflow allows the deployment, 403 when it refuses it,
\* 500 when the check evaluates ResourceKind.HOSE_SPLITTER, a member the
\* enum does not have (AttributeError): the HQ kind check and the combat
\* area kind check
assert_deployment_workflow_allowed_for_role(user, deployment) ==
    IF canonical_user_roles(user) \cap {"ADMIN", "TRAINING_LEAD"} # {}
    THEN 200
    ELSE IF "DISPATCHER" \in canonical_user_roles(user)
    THEN IF is_dispatcher_vehicle_dispatch(user, deployment) THEN 200
         ELSE 403
    ELSE IF "HQ" \in canonical_user_roles(user)
    THEN IF ~ deployment.plan_only THEN 403 ELSE 500
    ELSE IF "RTP" \in canonical_user_roles(user)
    THEN IF deployment.resource_kind # "MARKER" THEN 403
         ELSE IF deployment.command_point \notin {"HQ", "BU1", "BU2"}
         THEN 403
         ELSE 200
    ELSE IF canonical_user_roles(user)
              \cap {"COMBAT_AREA_1", "COMBAT_AREA_2"} # {}
    THEN 500
    ELSE 200

resolve_combat_area_role_for_user(user) ==
    IF "COMBAT_AREA_1" \in canonical_user_roles(user) THEN "COMBAT_AREA_1"
    ELSE IF "COMBAT_AREA_2" \in canonical_user_roles(user)
    THEN "COMBAT_AREA_2"
    ELSE NoneStr

BU_COMMAND_POINT_BY_ROLE(bu_role) ==
    IF bu_role = "COMBAT_AREA_1" THEN "BU1" ELSE "BU2"

has_rtp_command_point_for_combat_area(d, bu_role) ==
    \E i \in DOMAIN d.deployments :
       /\ d.deployments[i].resource_kind = "MARKER"
       /\ d.deployments[i].status # "COMPLETED"
       /\ d.deployments[i].role = "RTP"
       /\ d.deployments[i].command_point = BU_COMMAND_POINT_BY_ROLE(bu_role)

\* TRUE when the user is no combat area role or RTP placed its marker
assert_combat_area_is_activated_by_rtp(d, user) ==
    \/ resolve_combat_area_role_for_user(user) = NoneStr
    \/ has_rtp_command_point_for_combat_area(
           d, resolve_combat_area_role_for_user(user))

apply_create_resource_deployment_command(d, user, arg) ==
    LET allowed == assert_deployment_workflow_allowed_for_role(
                       user, DeploymentPayload(arg))
    IN  IF allowed # 200 THEN Rejected(allowed, d)
        ELSE IF ~ assert_combat_area_is_activated_by_rtp(d, user)
        THEN Rejected(409, d)
        ELSE Ok([d EXCEPT !.deployments = Append(@, DeploymentPayload(arg))])

\* a voice message without client transcript: one log entry, one
\* RadioTransmission row, and a transcription job for that row
NextRadioId(d) == Cardinality({i \in DOMAIN d.radio_rows :
                                  d.radio_rows[i] # "absent"}) + 1

\* who may transmit on channel "1", the channel of every push of the model
RADIO_CHANNEL_TX_ROLES ==
    {"ADMIN", "TRAINING_LEAD", "DISPATCHER", "RTP", "HQ",
     "COMBAT_AREA_1", "COMBAT_AREA_2"}

assert_radio_channel_write_allowed(user) ==
    canonical_user_roles(user) \cap RADIO_CHANNEL_TX_ROLES # {}

\* the environment's RADIO_CHANNEL_HOLD_TIMEOUT_SEC in tenths of a second,
\* clamped to [0.5, 5.0] seconds
RADIO_CHANNEL_HOLD_TIMEOUT_DEFAULT10 == 9
RADIO_CHANNEL_HOLD_TIMEOUT_SEC10(env10) == Max(5, Min(50, env10))

\* the speaker is dropped once its last chunk is older than the timeout
cleanup_radio_channel_speakers(d, t) ==
    IF d.channel_speakers.user_id = NoneStr THEN NoSpeaker
    ELSE IF Max(0, t - d.channel_speakers.last_seen_at) * 10
              > RADIO_CHANNEL_HOLD_TIMEOUT_SEC10(d.radio_hold_timeout_env10)
    THEN NoSpeaker
    ELSE d.channel_speakers

\* TRUE when the channel is free for the user; the caller raises 409 if not
reserve_radio_channel_or_raise(d, user, t) ==
    cleanup_radio_channel_speakers(d, t).user_id \in {NoneStr, user}

\* is_live_chunk and is_transmission_end of the payloads: "voice" is a whole
\* message, "live" a chunk of a transmission, "live_end" its last chunk
is_live_chunk(arg) == arg \in {"live", "live_end"}
is_transmission_end(arg) == arg = "live_end" \/ ~ is_live_chunk(arg)

release_radio_channel_if_owned(speaker, user) ==
    IF speaker.user_id = user THEN NoSpeaker ELSE speaker

apply_push_radio_message_command(d, user, arg, t) ==
    LET id == NextRadioId(d)
        reserved == [user_id |-> user, last_seen_at |-> t]
    IN  IF ~ assert_radio_channel_write_allowed(user) THEN Rejected(403, d)
        ELSE IF ~ reserve_radio_channel_or_raise(d, user, t)
        THEN Rejected(409, d)
        ELSE Ok([d EXCEPT
              !.radio_logs = Append(@, [id |-> id, transcript_text |-> "none"]),
              !.radio_rows[id] = "none",
              !.channel_speakers =
                  IF is_transmission_end(arg)
                  THEN release_radio_channel_if_owned(reserved, user)
                  ELSE reserved])

-----------------------------------------------------------------------------
(* Scene editing (ws.py 586-723, 4066-4284) *)

SCENE_EDIT_LOCKED_COMMANDS ==
    {"set_scene_address", "upsert_scene_floor", "set_active_scene_floor",
     "upsert_scene_object", "remove_scene_object",
     "sync_scene_to_fire_objects"}

SCENE_RUNTIME_MUTABLE_KINDS == {"HYDRANT", "WALL"}

\* the ids obj_<uuid4> a new object can get
NewObjectIds == {"obj_a", "obj_b", "obj_c"}

SceneObject(id, kind, geometry_type, geometry, collapsed) ==
    [id |-> id, kind |-> kind, geometry_type |-> geometry_type,
     geometry |-> geometry, collapsed |-> collapsed]

NoObject == SceneObject(NoneStr, NoneStr, NoneStr, NoneStr, FALSE)

\* a scene drawn before the lesson: one floor with a hydrant and a wall
SceneHydrantWall ==
    [EmptyScene EXCEPT
        !.floors = <<[floor_id |-> "F1",
                      objects |-> <<SceneObject("h1", "HYDRANT", "POINT",
                                                "g1", FALSE),
                                    SceneObject("w1", "WALL", "LINESTRING",
                                                "g1", FALSE)>>]>>]

\* the payloads of the scene commands
\* [object_id, floor_id, kind, geometry_type, geometry, collapsed,
\*  set_active, address_text]
ScenePayload(arg) ==
    LET base == [object_id |-> NoneStr, floor_id |-> NoneStr,
                 kind |-> "HYDRANT", geometry_type |-> "POINT",
                 geometry |-> "g1", collapsed |-> FALSE,
                 set_active |-> FALSE, address_text |-> "addr"]
    IN  IF arg = "hydrant" THEN [base EXCEPT !.object_id = "h1"]
        ELSE IF arg = "hydrant_moved"
        THEN [base EXCEPT !.object_id = "h1", !.geometry = "g2"]
        ELSE IF arg = "hydrant_f2"
        THEN [base EXCEPT !.object_id = "h1", !.floor_id = "F2"]
        ELSE IF arg = "wall"
        THEN [base EXCEPT !.object_id = "w1", !.kind = "WALL",
                          !.geometry_type = "LINESTRING"]
        ELSE IF arg = "wall_collapsed"
        THEN [base EXCEPT !.object_id = "w1", !.kind = "WALL",
                          !.geometry_type = "LINESTRING",
                          !.collapsed = TRUE]
        ELSE IF arg = "new_room"
        THEN [base EXCEPT !.kind = "ROOM", !.geometry_type = "POLYGON"]
        ELSE IF arg = "remove_h1" THEN [base EXCEPT !.object_id = "h1"]
        ELSE IF arg = "fire"
        THEN [base EXCEPT !.object_id = "f1", !.kind = "FIRE_SOURCE"]
        ELSE IF arg = "fire_moved"
        THEN [base EXCEPT !.object_id = "f1", !.kind = "FIRE_SOURCE",
                          !.geometry = "g2"]
        ELSE IF arg = "fire_f2"
        THEN [base EXCEPT !.object_id = "f1", !.kind = "FIRE_SOURCE",
                          !.floor_id = "F2"]
        ELSE IF arg = "fire_as_wall"
        THEN [base EXCEPT !.object_id = "f1", !.kind = "WALL",
                          !.geometry_type = "LINESTRING"]
        ELSE IF arg = "smoke"
        THEN [base EXCEPT !.object_id = "s1", !.kind = "SMOKE_ZONE"]
        ELSE IF arg = "new_fire" THEN [base EXCEPT !.kind = "FIRE_SOURCE"]
        ELSE IF arg = "remove_f1" THEN [base EXCEPT !.object_id = "f1"]
        ELSE IF arg = "remove_f1_f2"
        THEN [base EXCEPT !.object_id = "f1", !.floor_id = "F2"]
        ELSE IF arg = "remove_s1" THEN [base EXCEPT !.object_id = "s1"]
        ELSE IF arg = "floor_f2" THEN [base EXCEPT !.floor_id = "F2"]
        ELSE IF arg = "floor_f2_active"
        THEN [base EXCEPT !.floor_id = "F2", !.set_active = TRUE]
        ELSE IF arg = "floor_f1" THEN [base EXCEPT !.floor_id = "F1"]
        ELSE base

HasFloor(scene, floor_id) ==
    \E i \in 1..Len(scene.floors) : scene.floors[i].floor_id = floor_id

\* index of the first floor with this id (the loop of ensure_scene_floor)
FloorIndex(scene, floor_id) ==
    CHOOSE i \in 1..Len(scene.floors) :
        /\ scene.floors[i].floor_id = floor_id
        /\ \A j \in 1..(i - 1) : scene.floors[j].floor_id # floor_id

\* the scene after ensure_scene_floor(scene, floor_id)
ensure_scene_floor(scene, floor_id) ==
    IF HasFloor(scene, floor_id) THEN scene
    ELSE [scene EXCEPT
            !.floors = Append(@, [floor_id |-> floor_id, objects |-> <<>>])]

\* index in `objects` of the first object with this id, 0 when absent
ObjectIndex(objects, object_id) ==
    IF \E i \in 1..Len(objects) : objects[i].id = object_id
    THEN CHOOSE i \in 1..Len(objects) :
            /\ objects[i].id = object_id
            /\ \A j \in 1..(i - 1) : objects[j].id # object_id
    ELSE 0

\* searches every floor in list order, whatever floor the payload names
find_scene_object_by_id(scene, object_id) ==
    LET holding == {i \in 1..Len(scene.floors) :
                       ObjectIndex(scene.floors[i].objects, object_id) # 0}
    IN  IF object_id = NoneStr \/ holding = {} THEN NoObject
        ELSE LET i == CHOOSE i \in holding : \A j \in holding : i <= j
             IN  scene.floors[i].objects[
                     ObjectIndex(scene.floors[i].objects, object_id)]

\* the status code of assert_scene_upsert_allowed_during_lesson, 200 = passes
assert_scene_upsert_allowed_during_lesson(payload, existing_object) ==
    IF payload.object_id = NoneStr THEN 409
    ELSE IF payload.kind \notin SCENE_RUNTIME_MUTABLE_KINDS THEN 409
    ELSE IF existing_object = NoObject THEN 409
    ELSE IF existing_object.kind # payload.kind THEN 409
    ELSE IF existing_object.geometry_type # payload.geometry_type THEN 409
    ELSE IF existing_object.geometry # payload.geometry THEN 409
    ELSE IF payload.kind = "WALL" /\ ~ payload.collapsed THEN 409
    ELSE 200

\* the status code of assert_scene_command_allowed_for_session
assert_scene_command_allowed_for_session(d, command, payload) ==
    IF command \notin SCENE_EDIT_LOCKED_COMMANDS THEN 200
    ELSE IF d.status \notin {"IN_PROGRESS", "PAUSED"} THEN 200
    ELSE IF command # "upsert_scene_object" THEN 409
    ELSE assert_scene_upsert_allowed_during_lesson(
             payload, find_scene_object_by_id(d.scene, payload.object_id))

\* the address lookup falls back to generated entities without a network:
\* the active floor's objects are replaced by the layout seed_floor_layout
\* draws on an empty floor
apply_set_scene_address_command(d, payload) ==
    LET scene == ensure_scene_floor(d.scene, d.scene.active_floor_id)
        i == FloorIndex(scene, scene.active_floor_id)
    IN  Ok([d EXCEPT !.scene =
              [scene EXCEPT !.address = payload.address_text,
                            !.floors[i].objects =
                                <<SceneObject("seed_w1", "WALL",
                                              "LINESTRING", "g1", FALSE)>>]])

apply_upsert_scene_floor_command(d, payload) ==
    LET scene == ensure_scene_floor(d.scene, payload.floor_id)
    IN  Ok([d EXCEPT !.scene =
              IF payload.set_active
              THEN [scene EXCEPT !.active_floor_id = payload.floor_id]
              ELSE scene])

apply_set_active_scene_floor_command(d, payload) ==
    Ok([d EXCEPT !.scene =
          [ensure_scene_floor(d.scene, payload.floor_id)
             EXCEPT !.active_floor_id = payload.floor_id]])

\* extra.get("scene_object_id") of a FireObject row
SceneObjectIdOf(fire_object) ==
    IF "scene_object_id" \in DOMAIN fire_object
    THEN fire_object.scene_object_id
    ELSE NoneStr

RECURSIVE remove_fire_objects_for_scene_object(_, _)
remove_fire_objects_for_scene_object(fire_objects, object_id) ==
    IF fire_objects = <<>> THEN <<>>
    ELSE IF SceneObjectIdOf(Head(fire_objects)) = object_id
    THEN remove_fire_objects_for_scene_object(Tail(fire_objects), object_id)
    ELSE <<Head(fire_objects)>>
           \o remove_fire_objects_for_scene_object(Tail(fire_objects),
                                                   object_id)

\* the FireObject row of a scene object without props and with a point or
\* line geometry: rank 1, power 1.0, the default area, speed and maximum
SceneObjectFireObject(floor_id, scene_object) ==
    LET seat == scene_object.kind = "FIRE_SOURCE"
    IN  [kind |-> IF seat THEN "FIRE_SEAT" ELSE "SMOKE_ZONE",
         area_m2 |-> IF seat THEN MulM(base_area_by_rank(1), Max(700, 1000))
                     ELSE MulM(2400, Max(700, 1000)),
         spread_speed_m_min |-> IF seat THEN FIRE_SEAT_DEFAULT_SPEED
                                ELSE FIRE_ZONE_DEFAULT_SPEED,
         spread_azimuth |-> None,
         is_active |-> TRUE,
         fire_rank |-> 1,
         fire_power |-> 1000,
         max_area_m2 |-> IF seat THEN 14000 ELSE 22000,
         source |-> "ws:scene_object",
         cell |-> "A",
         scene_object_id |-> scene_object.id,
         floor_id |-> floor_id]

\* index of the first FireObject row of this scene object, 0 when absent
FireObjectIndex(fire_objects, object_id) ==
    IF \E i \in 1..Len(fire_objects) :
          SceneObjectIdOf(fire_objects[i]) = object_id
    THEN CHOOSE i \in 1..Len(fire_objects) :
            /\ SceneObjectIdOf(fire_objects[i]) = object_id
            /\ \A j \in 1..(i - 1) :
                  SceneObjectIdOf(fire_objects[j]) # object_id
    ELSE 0

\* nothing for an object that is no fire source and no smoke zone; else the
\* first row with this scene_object_id is rewritten, or a row is added
upsert_fire_object_from_scene(fire_objects, floor_id, scene_object) ==
    LET target == FireObjectIndex(fire_objects, scene_object.id)
    IN  IF scene_object.kind \notin {"FIRE_SOURCE", "SMOKE_ZONE"}
        THEN fire_objects
        ELSE IF target = 0
        THEN Append(fire_objects,
                    SceneObjectFireObject(floor_id, scene_object))
        ELSE [fire_objects EXCEPT
                ![target] = SceneObjectFireObject(floor_id, scene_object)]

\* obj_<uuid4>: an id no object of the scene has
FreshObjectId(scene) ==
    CHOOSE id \in NewObjectIds :
        \A i \in 1..Len(scene.floors) :
            ObjectIndex(scene.floors[i].objects, id) = 0

\* the floor is payload.floor_id, else the active floor; the object is looked
\* up on THAT floor only and appended to it when it is not found there
apply_upsert_scene_object_command(d, payload) ==
    LET floor_id == IF payload.floor_id # NoneStr THEN payload.floor_id
                    ELSE d.scene.active_floor_id
        scene == ensure_scene_floor(d.scene, floor_id)
        i == FloorIndex(scene, floor_id)
        object_id == IF payload.object_id # NoneStr THEN payload.object_id
                     ELSE FreshObjectId(scene)
        target_index == ObjectIndex(scene.floors[i].objects, object_id)
        object_payload == SceneObject(object_id, payload.kind,
                                      payload.geometry_type,
                                      payload.geometry, payload.collapsed)
    IN  Ok([d EXCEPT
              !.scene =
                  IF target_index = 0
                  THEN [scene EXCEPT !.floors[i].objects =
                                          Append(@, object_payload)]
                  ELSE [scene EXCEPT !.floors[i].objects[target_index] =
                                          object_payload],
              !.fire_objects =
                  upsert_fire_object_from_scene(@, floor_id, object_payload)])

apply_remove_scene_object_command(d, payload) ==
    LET floor_id == IF payload.floor_id # NoneStr THEN payload.floor_id
                    ELSE d.scene.active_floor_id
        scene == ensure_scene_floor(d.scene, floor_id)
        i == FloorIndex(scene, floor_id)
        target_index == ObjectIndex(scene.floors[i].objects,
                                    payload.object_id)
    IN  IF payload.object_id = NoneStr THEN Rejected(422, d)
        ELSE IF target_index = 0 THEN Rejected(404, d)
        ELSE Ok([d EXCEPT
                   !.scene =
                       [scene EXCEPT !.floors[i].objects =
                          [j \in 1..(Len(@) - 1) |->
                              IF j < target_index THEN @[j] ELSE @[j + 1]]],
                   !.fire_objects =
                       remove_fire_objects_for_scene_object(
                           @, payload.object_id)])

\* the handler of the command; each begins with
\* get_or_create_current_snapshot and d is its result
apply_command_handler(d, user, command, arg, t) ==
    IF command = "create_fire_object"
    THEN apply_create_fire_object_command(d, arg)
    ELSE IF command = "create_resource_deployment"
    THEN apply_create_resource_deployment_command(d, user, arg)
    ELSE IF command = "push_radio_message"
    THEN apply_push_radio_message_command(d, user, arg, t)
    ELSE IF command = "update_snapshot"
    THEN apply_update_snapshot_command(d, arg)
    ELSE IF command = "set_scene_address"
    THEN apply_set_scene_address_command(d, ScenePayload(arg))
    ELSE IF command = "upsert_scene_floor"
    THEN apply_upsert_scene_floor_command(d, ScenePayload(arg))
    ELSE IF command = "set_active_scene_floor"
    THEN apply_set_active_scene_floor_command(d, ScenePayload(arg))
    ELSE IF command = "upsert_scene_object"
    THEN apply_upsert_scene_object_command(d, ScenePayload(arg))
    ELSE IF command = "remove_scene_object"
    THEN apply_remove_scene_object_command(d, ScenePayload(arg))
    ELSE IF command = "sync_scene_to_fire_objects"
    THEN apply_sync_scene_to_fire_objects_command(d)
    ELSE IF command = "save_scene_checkpoint"
    THEN apply_save_scene_checkpoint_command(d, arg = "mark", t)
    ELSE IF command = "start_lesson"
    THEN apply_start_lesson_command(d, StartTimeLimit(arg), t)
    ELSE IF command = "pause_lesson"
    THEN apply_pause_lesson_command(d, t)
    ELSE IF command = "resume_lesson"
    THEN apply_resume_lesson_command(d, t)
    ELSE IF command = "finish_lesson"
    THEN apply_finish_lesson_command(d, t)
    ELSE Rejected(400, d)

apply_realtime_command(d, user, command, arg, t) ==
    IF ~ assert_role_allowed_for_command(user, command)
    THEN Rejected(403, d)
    ELSE IF assert_scene_command_allowed_for_session(
                d, command, ScenePayload(arg)) # 200
    THEN Rejected(assert_scene_command_allowed_for_session(
                      d, command, ScenePayload(arg)), d)
    ELSE apply_command_handler(get_or_create_current_snapshot(d),
                               user, command, arg, t)

\* a mutation of commit_or_rollback: a rejected handler still commits the
\* catch-up tick
commit_or_rollback_keep_tick(d, tick, handled) ==
    IF handled.code # 200
    THEN [code |-> handled.code, d |-> tick.d, tick_applied |-> tick.updated]
    ELSE [code |-> 200, d |-> handled.d, tick_applied |-> tick.updated]

\* the transaction after the catch-up tick returned `tick` and the handler
\* returned `handled`
commit_or_rollback(d, tick, handled) ==
    IF handled.code # 200
    THEN [code |-> handled.code, d |-> d, tick_applied |-> FALSE]
    ELSE [code |-> 200, d |-> handled.d, tick_applied |-> tick.updated]

command_after_tick(d, tick, user, command, arg, t) ==
    IF tick.raised
    THEN [code |-> 500, d |-> d, tick_applied |-> FALSE]
    ELSE commit_or_rollback(
             d, tick, apply_realtime_command(tick.d, user, command, arg, t))

\* The body of `async with session_lock` in realtime_ws_endpoint: permission
\* check, catch-up tick, handler, commit.  Any exception leaves the
\* transaction uncommitted.  code 500 is the INTERNAL_ERROR frame.
\* result [code, d, tick_applied]
\* auth.py: the lifetime of an auth session, in seconds
REFRESH_TOKEN_EXPIRE_DAYS == 7
AuthSessionLifetime == REFRESH_TOKEN_EXPIRE_DAYS * 86400

is_auth_session_expired(expires_at, t) == expires_at <= t

\* a revalidation that only looks at the revocation flag
ensure_ws_actor_active_unexpired(d, user, t) ==
    user \notin d.auth_revoked

\* ensure_ws_actor_active: FALSE where the code raises 401
ensure_ws_actor_active(d, user, t) ==
    /\ user \notin d.auth_revoked
    /\ ~ is_auth_session_expired(d.auth_expires_at, t)

CommandTransaction(d, user, command, arg, t) ==
    IF ~ ensure_ws_actor_active(d, user, t)
    THEN [code |-> 401, d |-> d, tick_applied |-> FALSE]
    ELSE IF ~ has_permission(user, WS_COMMAND_PERMISSIONS(command))
    THEN [code |-> 403, d |-> d, tick_applied |-> FALSE]
    ELSE command_after_tick(
             d, apply_lesson_runtime_tick_for_session(d, t),
             user, command, arg, t)

tick_commit(d, tick) ==
    IF tick.raised THEN [code |-> 500, d |-> d]
    ELSE IF ~ tick.updated THEN [code |-> 0, d |-> d]
    ELSE [code |-> 200, d |-> tick.d]

\* The body of maybe_apply_runtime_tick_and_broadcast under the lock
\* result [code, d]: 200 committed, 0 nothing to do, 500 the tick raised
TickTransaction(d, t) ==
    tick_commit(d, apply_lesson_runtime_tick_for_session(d, t))

-----------------------------------------------------------------------------
(* State *)

Conns == {1, 2}
MaxRadio == 1

NoReply ==
    [kind |-> "none", code |-> 0, user |-> "", command |-> "",
     tick_applied |-> FALSE]

NoFrame == [user |-> "", command |-> "", arg |-> "", commandId |-> ""]

\* "s1" is the session whose rows are db; "s2" is another session that
\* nobody changes
Sessions == {"s1", "s2"}

\* what a session_state frame shows of a session: the status and the numbers
\* of fire objects and of radio log entries
get_session_state_payload(d, session_id) ==
    IF session_id = "s1"
    THEN [status |-> d.status, fire_objects |-> Len(d.fire_objects),
          radio_logs |-> Len(d.radio_logs)]
    ELSE [status |-> "CREATED", fire_objects |-> 0, radio_logs |-> 0]

NoBundle == [status |-> NoneStr, fire_objects |-> 0, radio_logs |-> 0]

InitDb(scene, time_multiplier) ==
    [status |-> "CREATED",
     time_multiplier |-> time_multiplier,
     weather |-> DefaultWeather,
     scene |-> scene,
     lesson |-> EmptyLesson,
     health |-> ZeroHealth,
     fire_objects |-> <<>>,
     deployments |-> <<>>,
     vehicle_runtime |-> [v \in VehicleIds |-> None],
     nozzle_runtime |-> {},
     hose_runtime |-> {},
     radio_logs |-> <<>>,
     radio_rows |-> [i \in 1..MaxRadio |-> "absent"],
     channel_speakers |-> NoSpeaker,
     radio_hold_timeout_env10 |-> RADIO_CHANNEL_HOLD_TIMEOUT_DEFAULT10,
     journal |-> 0,
     snapshots |-> <<TRUE>>,
     user_session_id |-> "s1",
     auth_revoked |-> {},
     auth_expires_at |-> AuthSessionLifetime]

CommandIds == {"k1"}
CacheKeys == Users \X CommandIds

\* CommandIdempotencyStore.__init__ defaults
IDEMPOTENCY_TTL_SECONDS == 900
IDEMPOTENCY_MAX_ENTRIES == 20000

EmptyStore == [k \in CacheKeys |-> None]

InitWs ==
    /\ pc = [c \in Conns |-> "idle"]
    /\ frame = [c \in Conns |-> NoFrame]
    /\ session_lock = 0
    /\ ws_idempotency = EmptyStore
    /\ outbox = [c \in Conns |-> <<>>]
    /\ applied = [k \in CacheKeys |-> <<>>]
    /\ radio_jobs = {}
    /\ command_times = [c \in Conns |-> <<>>]
    /\ connections_by_session = [s \in Sessions |-> {}]
    /\ current_session_id = [c \in Conns |-> NoneStr]
    /\ bundle = [c \in Conns |-> NoBundle]

\* the commands of the model stay within its bounds
WithinBounds(d, command) ==
    /\ command = "create_fire_object" => Len(d.fire_objects) < MaxFireObjects
    /\ command = "create_resource_deployment"
           => Len(d.deployments) < MaxDeployments
    /\ command = "push_radio_message" => NextRadioId(d) <= MaxRadio
    /\ d.health.ticks_total < MaxTicks

-----------------------------------------------------------------------------
(* SpecLesson: commands and idle ticks one at a time, in the order the     *)
(* session lock gives them.                                                *)

LessonSpecCommands ==
    LessonCommands \cup {"save_scene_checkpoint", "update_snapshot"}

\* a CREATED session whose scene and deployments were prepared beforehand
InitLesson ==
    /\ now = 0
    /\ db \in {[InitDb(scene, m) EXCEPT !.deployments = deployments] :
                  scene \in {EmptyScene, SceneOneSource},
                  m \in {300},
                  deployments \in {<<>>, <<DeploymentPayload("vehicle")>>}}
    /\ reply = NoReply
    /\ InitWs

\* what a transaction leaves behind: the committed rows and the answer
CommitCommand(r, user, command) ==
    /\ db' = r.d
    /\ reply' = [kind |-> "command", code |-> r.code, user |-> user,
                 command |-> command, tick_applied |-> r.tick_applied]

CommitTick(r) ==
    /\ db' = r.d
    /\ reply' = [NoReply EXCEPT !.kind = "tick", !.code = r.code,
                                !.tick_applied = (r.code = 200)]

AdvanceClock ==
    /\ \E delta \in {4} :
          /\ now + delta <= MaxNow
          /\ now' = now + delta
    /\ reply' = NoReply
    /\ UNCHANGED <<db, wsVars>>

LessonCommand ==
    \E user \in Users, command \in LessonSpecCommands :
      \E arg \in CommandArgs(command) \ {"notes", "refill"} :
        /\ WithinBounds(db, command)
        /\ CommitCommand(CommandTransaction(db, user, command, arg, now),
                         user, command)
        /\ UNCHANGED <<now, wsVars>>

LessonIdleTick ==
    /\ db.health.ticks_total < MaxTicks
    /\ CommitTick(TickTransaction(db, now))
    /\ UNCHANGED <<now, wsVars>>

NextLesson == AdvanceClock \/ LessonCommand \/ LessonIdleTick

SpecLesson == InitLesson /\ [][NextLesson]_vars

-----------------------------------------------------------------------------
(* SpecFire: a lesson with fire objects, deployments and snapshot edits    *)

FireSpecCommands ==
    {"start_lesson", "create_fire_object", "create_resource_deployment",
     "update_snapshot"}

FireSpecArgs(command) ==
    IF command = "start_lesson" THEN {"default"}
    ELSE IF command = "update_snapshot" THEN {"notes", "refill"}
    ELSE CommandArgs(command)

InitFire ==
    /\ now = 0
    /\ db \in {InitDb(scene, m) : scene \in {EmptyScene, SceneOneSource},
                                  m \in {20, 300}}
    /\ reply = NoReply
    /\ InitWs

FireCommand ==
    \E user \in Users, command \in FireSpecCommands :
      \E arg \in FireSpecArgs(command) :
        /\ WithinBounds(db, command)
        /\ CommitCommand(CommandTransaction(db, user, command, arg, now),
                         user, command)
        /\ UNCHANGED <<now, wsVars>>

NextFire == AdvanceClock \/ FireCommand \/ LessonIdleTick

SpecFire == InitFire /\ [][NextFire]_vars

-----------------------------------------------------------------------------
(* SpecDeploy: deployments placed by the lead, RTP and a combat area       *)

DeployUsers == {"lead", "rtp", "bu1"}

DeploySpecCommands == {"start_lesson", "create_resource_deployment"}

DeploySpecArgs(command) ==
    IF command = "start_lesson" THEN {"default"}
    ELSE {"vehicle", "marker_bu1"}

InitDeploy ==
    /\ now = 0
    /\ db \in {InitDb(scene, 300) : scene \in {EmptyScene, SceneOneSource}}
    /\ reply = NoReply
    /\ InitWs

DeployCommand ==
    \E user \in DeployUsers, command \in DeploySpecCommands :
      \E arg \in DeploySpecArgs(command) :
        /\ WithinBounds(db, command)
        /\ CommitCommand(CommandTransaction(db, user, command, arg, now),
                         user, command)
        /\ UNCHANGED <<now, wsVars>>

NextDeploy == AdvanceClock \/ DeployCommand \/ LessonIdleTick

SpecDeploy == InitDeploy /\ [][NextDeploy]_vars

-----------------------------------------------------------------------------
(* SpecScene: the training lead edits the scene before and during a lesson *)

SceneSpecCommands ==
    SCENE_EDIT_LOCKED_COMMANDS \cup
    {"start_lesson", "pause_lesson", "finish_lesson"}

SceneSpecArgs(command) ==
    IF command = "upsert_scene_object"
    THEN {"hydrant", "hydrant_moved", "hydrant_f2", "wall", "wall_collapsed",
          "new_room"}
    ELSE IF command = "remove_scene_object" THEN {"remove_h1"}
    ELSE IF command = "upsert_scene_floor" THEN {"floor_f2", "floor_f2_active"}
    ELSE IF command = "set_active_scene_floor" THEN {"floor_f1", "floor_f2"}
    ELSE IF command = "set_scene_address" THEN {"addr"}
    ELSE IF command = "start_lesson" THEN {"default"}
    ELSE {"none"}

InitScene ==
    /\ now = 0
    /\ db = InitDb(SceneHydrantWall, 300)
    /\ reply = NoReply
    /\ InitWs

MaxSceneObjects == 3

SceneWithinBounds(d, command) ==
    command = "upsert_scene_object"
        => SeqSum([i \in 1..Len(d.scene.floors) |->
                      Len(d.scene.floors[i].objects)]) < MaxSceneObjects

SceneCommand ==
    \E user \in {"lead"}, command \in SceneSpecCommands :
      \E arg \in SceneSpecArgs(command) :
        /\ WithinBounds(db, command)
        /\ SceneWithinBounds(db, command)
        /\ CommitCommand(CommandTransaction(db, user, command, arg, now),
                         user, command)
        /\ UNCHANGED <<now, wsVars>>

NextScene == AdvanceClock \/ SceneCommand

SpecScene == InitScene /\ [][NextScene]_vars

-----------------------------------------------------------------------------
(* Spec: the WebSocket endpoint.  Every await of realtime_ws_endpoint is a  *)
(* scheduling point between the connections' coroutines.                    *)

MaxFrames == 2
MaxWsNow == 4

\* both connections are authenticated as the same user
ConnUser(c) == "lead"

WsSpecCommands == {"create_fire_object", "push_radio_message"}

WsSpecArgs(command) ==
    IF command = "create_fire_object" THEN {"seat"} ELSE CommandArgs(command)

command_cache_key(user, commandId) == <<user, commandId>>

\* CommandIdempotencyStore._cleanup_locked
cleanup_locked(store, t) ==
    [k \in DOMAIN store |->
        IF store[k] # None /\ store[k] < t - IDEMPOTENCY_TTL_SECONDS
        THEN None ELSE store[k]]

StoredKeys(store) == {k \in DOMAIN store : store[k] # None}

\* CommandIdempotencyStore._trim_locked: the oldest entries go first
trim_locked(store) ==
    IF Cardinality(StoredKeys(store)) <= IDEMPOTENCY_MAX_ENTRIES THEN store
    ELSE LET excess == Cardinality(StoredKeys(store)) - IDEMPOTENCY_MAX_ENTRIES
             keys_to_remove ==
                 CHOOSE S \in SUBSET StoredKeys(store) :
                    /\ Cardinality(S) = excess
                    /\ \A k \in S, j \in StoredKeys(store) \ S :
                          store[k] <= store[j]
         IN  [k \in DOMAIN store |->
                 IF k \in keys_to_remove THEN None ELSE store[k]]

\* a store that forgets every ack
idempotency_get_miss(store, key, t) ==
    [store |-> cleanup_locked(store, t), hit |-> FALSE]

\* CommandIdempotencyStore.get: the store after the cleanup and whether
\* the key is cached
idempotency_get(store, key, t) ==
    [store |-> cleanup_locked(store, t),
     hit |-> cleanup_locked(store, t)[key] # None]

\* CommandIdempotencyStore.put
idempotency_put(store, key, t) ==
    trim_locked([cleanup_locked(store, t) EXCEPT ![key] = t])

Ack(commandId, status) ==
    [type |-> "ack", commandId |-> commandId, status |-> status, code |-> 0]

\* an error frame that never names the command
ErrorFrame_anonymous(commandId, code) ==
    [type |-> "error", commandId |-> "", status |-> "error", code |-> code]

ErrorFrame(commandId, code) ==
    [type |-> "error", commandId |-> commandId, status |-> "error",
     code |-> code]

\* a lesson started at time 0 by start_lesson
StartedDb(scene, m, deployments) ==
    apply_start_lesson_command(
        [InitDb(scene, m) EXCEPT !.deployments = deployments],
        StartTimeLimit("default"), 0).d

Init ==
    /\ now = 0
    /\ db \in {StartedDb(EmptyScene, 300, deployments) :
                  deployments \in {<<>>, <<DeploymentPayload("vehicle")>>}}
    /\ reply = NoReply
    /\ InitWs

InFlight(command) ==
    Cardinality({c \in Conns : /\ pc[c] \in {"wait_lock", "locked"}
                               /\ frame[c].command = command})

\* the frames of the model stay within its bounds
FrameWithinBounds(command) ==
    /\ command = "create_fire_object"
         => Len(db.fire_objects) + InFlight(command) < MaxFireObjects
    /\ command = "push_radio_message"
         => NextRadioId(db) + InFlight(command) <= MaxRadio

\* the time passes: one simulation step, or the idempotency TTL at once
WsAdvanceClock ==
    /\ now <= MaxWsNow
    /\ \E delta \in {SIMULATION_MAX_STEP_REAL_SEC,
                     IDEMPOTENCY_TTL_SECONDS + 1} :
          /\ delta = SIMULATION_MAX_STEP_REAL_SEC => now + delta <= MaxWsNow
          /\ now' = now + delta
    /\ reply' = NoReply
    /\ UNCHANGED <<db, wsVars>>

WS_MAX_COMMANDS_PER_WINDOW == 30
WS_RATE_LIMIT_WINDOW_SECONDS == 1

\* enforce_ws_rate_limit: the timestamps still inside the window
rate_window(times, t) ==
    SelectSeq(times, LAMBDA value : value >= t - WS_RATE_LIMIT_WINDOW_SECONDS)

rate_limited(times, t) ==
    Len(rate_window(times, t)) >= WS_MAX_COMMANDS_PER_WINDOW

\* a command frame that passed the rate limiter: idempotency lookup before
\* the lock; a hit is answered with the cached ack as duplicate
ReceiveCommandLookup(c, command, arg, commandId, got) ==
    /\ ws_idempotency' = got.store
    /\ command_times' = [command_times EXCEPT
                           ![c] = Append(rate_window(@, now), now)]
    /\ IF got.hit
       THEN /\ outbox' = [outbox EXCEPT
                            ![c] = Append(@, Ack(commandId, "duplicate"))]
            /\ UNCHANGED <<pc, frame>>
       ELSE /\ pc' = [pc EXCEPT ![c] = "wait_lock"]
            /\ frame' = [frame EXCEPT
                           ![c] = [user |-> ConnUser(c), command |-> command,
                                   arg |-> arg, commandId |-> commandId]]
            /\ UNCHANGED outbox

\* a command frame refused by the rate limiter (429)
ReceiveRateLimited(c, commandId) ==
    /\ command_times' = [command_times EXCEPT ![c] = rate_window(@, now)]
    /\ outbox' = [outbox EXCEPT ![c] = Append(@, ErrorFrame(commandId, 429))]
    /\ UNCHANGED <<pc, frame, ws_idempotency>>

ReceiveCommand(c) ==
    /\ pc[c] = "idle"
    /\ Len(outbox[c]) < MaxFrames
    /\ \E command \in WsSpecCommands, commandId \in CommandIds :
         \E arg \in WsSpecArgs(command) :
           /\ FrameWithinBounds(command)
           /\ IF rate_limited(command_times[c], now)
              THEN ReceiveRateLimited(c, commandId)
              ELSE ReceiveCommandLookup(
                       c, command, arg, commandId,
                       idempotency_get(
                           ws_idempotency,
                           command_cache_key(ConnUser(c), commandId), now))
    /\ reply' = NoReply
    /\ UNCHANGED <<now, db, session_lock, applied, radio_jobs,
                   connVars>>

\* a lock that lets everybody in
lock_always_free(holder) == TRUE

\* asyncio.Lock.acquire
lock_is_free(holder) == holder = 0

AcquireLock(c) ==
    /\ pc[c] \in {"wait_lock", "tick_wait"}
    /\ lock_is_free(session_lock)
    /\ session_lock' = c
    /\ pc' = [pc EXCEPT ![c] = IF pc[c] = "wait_lock" THEN "locked"
                                ELSE "tick_locked"]
    /\ reply' = NoReply
    /\ UNCHANGED <<now, db, frame, ws_idempotency, outbox, applied,
                   radio_jobs, command_times, connVars>>

\* the end of `async with session_lock` in realtime_ws_endpoint: the
\* transaction returned r; an exception is answered with an error frame
CommitWsCommand(c, key, r) ==
    /\ db' = r.d
    /\ session_lock' = 0
    /\ reply' = [kind |-> "command", code |-> r.code, user |-> frame[c].user,
                 command |-> frame[c].command,
                 tick_applied |-> r.tick_applied]
    /\ IF r.code = 200
       THEN /\ pc' = [pc EXCEPT ![c] = "put"]
            /\ applied' = [applied EXCEPT ![key] = Append(@, now)]
            /\ radio_jobs' =
                 IF frame[c].command = "push_radio_message"
                 THEN radio_jobs \cup {NextRadioId(db)} ELSE radio_jobs
            /\ UNCHANGED <<frame, outbox>>
       ELSE /\ pc' = [pc EXCEPT ![c] = "idle"]
            /\ frame' = [frame EXCEPT ![c] = NoFrame]
            /\ outbox' = [outbox EXCEPT
                            ![c] = Append(@, ErrorFrame(frame[c].commandId,
                                                        r.code))]
            /\ UNCHANGED <<applied, radio_jobs>>

ApplyCommand(c) ==
    /\ pc[c] = "locked"
    /\ CommitWsCommand(
           c, command_cache_key(frame[c].user, frame[c].commandId),
           CommandTransaction(db, frame[c].user, frame[c].command,
                              frame[c].arg, now))
    /\ UNCHANGED <<now, ws_idempotency, command_times,
                   connVars>>

\* ws_idempotency.put and the ack; the send fails when the client is gone
PutAck(c) ==
    /\ pc[c] = "put"
    /\ ws_idempotency' =
         idempotency_put(ws_idempotency,
                         command_cache_key(frame[c].user, frame[c].commandId),
                         now)
    /\ \E delivered \in BOOLEAN :
         IF delivered
         THEN /\ outbox' = [outbox EXCEPT
                   ![c] = Append(@, Ack(frame[c].commandId, "applied"))]
              /\ pc' = [pc EXCEPT ![c] = "idle"]
         ELSE /\ pc' = [pc EXCEPT ![c] = "closed"]
              /\ UNCHANGED outbox
    /\ frame' = [frame EXCEPT ![c] = NoFrame]
    /\ reply' = NoReply
    /\ UNCHANGED <<now, db, session_lock, applied, radio_jobs, command_times,
                   connVars>>

\* asyncio.wait_for(receive_json) timed out: the idle tick is due
IdleTimeout(c) ==
    /\ pc[c] = "idle"
    /\ db.health.ticks_total < MaxTicks
    /\ pc' = [pc EXCEPT ![c] = "tick_wait"]
    /\ reply' = NoReply
    /\ UNCHANGED <<now, db, frame, session_lock, ws_idempotency, outbox,
                   applied, radio_jobs, command_times, connVars>>

\* the body of maybe_apply_runtime_tick_and_broadcast under the lock
IdleTick(c) ==
    /\ pc[c] = "tick_locked"
    /\ CommitTick(TickTransaction(db, now))
    /\ session_lock' = 0
    /\ pc' = [pc EXCEPT ![c] = "idle"]
    /\ UNCHANGED <<now, frame, ws_idempotency, outbox, applied, radio_jobs,
                   command_times, connVars>>

\* the write-back of run_radio_transcription_job for transmission row id
radio_write_back(d, id, transcript_text) ==
    IF transcript_text = "" THEN d
    ELSE IF d.radio_rows[id] = "absent" THEN d
    ELSE IF d.radio_rows[id] # "none" THEN d
    ELSE [d EXCEPT
            !.radio_rows[id] = transcript_text,
            !.radio_logs =
                [i \in DOMAIN @ |->
                    IF @[i].id = id
                    THEN [@[i] EXCEPT !.transcript_text = transcript_text]
                    ELSE @[i]],
            !.journal = @ + 1]

RadioTranscription ==
    /\ \E id \in radio_jobs, transcript_text \in {"", "text"} :
          /\ db' = radio_write_back(db, id, transcript_text)
          /\ radio_jobs' = radio_jobs \ {id}
    /\ reply' = NoReply
    /\ UNCHANGED <<now, pc, frame, session_lock, ws_idempotency, outbox,
                   applied, command_times, connVars>>

Next ==
    \/ WsAdvanceClock
    \/ \E c \in Conns : ReceiveCommand(c)
    \/ \E c \in Conns : AcquireLock(c)
    \/ \E c \in Conns : ApplyCommand(c)
    \/ \E c \in Conns : PutAck(c)
    \/ \E c \in Conns : IdleTimeout(c)
    \/ \E c \in Conns : IdleTick(c)
    \/ RadioTranscription

Spec == Init /\ [][Next]_vars

-----------------------------------------------------------------------------
(* SpecTick: a running lesson that only idle ticks advance; the read loop  *)
(* times out after SIMULATION_LOOP_INTERVAL_SEC, or later under load       *)

\* session.time_multiplier x10: 0.1, 0.5, 1.5, 2, 30 and 40 (clamped to 30)
TickMultipliers == {1, 5, 15, 20, 300, 400}

InitTick ==
    /\ now = 0
    /\ db \in {StartedDb(EmptyScene, m, <<>>) : m \in TickMultipliers}
    /\ reply = NoReply
    /\ InitWs

\* asyncio.wait_for(websocket.receive_json(), timeout) runs out
IdleInterval ==
    /\ \E delta \in {SIMULATION_LOOP_INTERVAL_SEC,
                     SIMULATION_MAX_STEP_REAL_SEC + 1} :
          /\ now + delta <= MaxNow
          /\ now' = now + delta
    /\ reply' = NoReply
    /\ UNCHANGED <<db, wsVars>>

NextTick == IdleInterval \/ LessonIdleTick

SpecTick == InitTick /\ [][NextTick]_vars

-----------------------------------------------------------------------------
(* SpecConn: the protocol of realtime_ws_endpoint on each socket: auth     *)
(* handshake, subscribe_session, command frames, ack, session_state and    *)
(* broadcast.  Each connection sends at most one well-formed command, with *)
(* a commandId of its own, so the idempotency lookup misses.               *)

MaxOutbox == 4

ConnCommandId(c) == IF c = 1 THEN "k1" ELSE "k2"

\* a subscribe that leaves the socket in the sets it was in
subscribe_keep(connections, session_id, websocket) ==
    [connections EXCEPT ![session_id] = @ \cup {websocket}]

\* WebSocketConnectionManager.subscribe; an absent key is the empty set
subscribe(connections, session_id, websocket) ==
    [s \in Sessions |-> IF s = session_id
                        THEN connections[s] \cup {websocket}
                        ELSE connections[s] \ {websocket}]

\* WebSocketConnectionManager.unsubscribe
\* an unsubscribe that forgets to discard the socket
unsubscribe_none(connections, websocket) == connections

unsubscribe(connections, websocket) ==
    [s \in Sessions |-> connections[s] \ {websocket}]

\* a frame other than ack and error
Frame(type, sessionId, b, cause) ==
    [type |-> type, sessionId |-> sessionId, bundle |-> b, cause |-> cause]

\* a lesson running since time 0 with one vehicle and one fire seat
RunningDbWithFire ==
    [StartedDb(EmptyScene, 300, <<DeploymentPayload("vehicle")>>)
        EXCEPT !.fire_objects = <<FireObjectPayload("seat")>>]

InitConn ==
    /\ \/ now = 0 /\ db = InitDb(EmptyScene, 300)
       \/ now = SIMULATION_MAX_STEP_REAL_SEC /\ db = RunningDbWithFire
    /\ reply = NoReply
    /\ pc = [c \in Conns |-> "connecting"]
    /\ frame = [c \in Conns |-> NoFrame]
    /\ session_lock = 0
    /\ ws_idempotency = EmptyStore
    /\ outbox = [c \in Conns |-> <<>>]
    /\ applied = [k \in CacheKeys |-> <<>>]
    /\ radio_jobs = {}
    /\ command_times = [c \in Conns |-> <<>>]
    /\ connections_by_session = [s \in Sessions |-> {}]
    /\ current_session_id = [c \in Conns |-> NoneStr]
    /\ bundle = [c \in Conns |-> NoBundle]

\* the first frame of a socket, up to the auth_ok frame; every failure path
\* ends in close() and the unsubscribe of `finally`
Handshake(c) ==
    /\ pc[c] = "connecting"
    /\ \E first \in {"auth_s1", "auth_s2", "not_auth", "no_token",
                     "bad_token", "not_json"} :
         /\ reply' = [NoReply EXCEPT !.kind = "first_frame",
                                     !.command = first]
         /\ IF first \in {"auth_s1", "auth_s2"}
            THEN LET s == IF first = "auth_s1" THEN "s1" ELSE "s2"
                 IN  /\ connections_by_session' =
                            subscribe(connections_by_session, s, c)
                     /\ current_session_id' =
                            [current_session_id EXCEPT ![c] = s]
                     /\ outbox' = [outbox EXCEPT ![c] =
                            Append(@, Frame("auth_ok", s, NoBundle, ""))]
                     /\ pc' = [pc EXCEPT ![c] = "auth_ok"]
            ELSE /\ connections_by_session' =
                        unsubscribe(connections_by_session, c)
                 /\ outbox' = [outbox EXCEPT ![c] =
                        Append(@, Frame(IF first \in {"not_auth", "no_token"}
                                        THEN "auth_error" ELSE "error",
                                        NoneStr, NoBundle, ""))]
                 /\ pc' = [pc EXCEPT ![c] =
                              IF first = "not_json" THEN "closed_1011"
                              ELSE "closed_1008"]
                 /\ UNCHANGED current_session_id
    /\ UNCHANGED <<now, db, frame, session_lock, ws_idempotency, applied,
                   radio_jobs, command_times, bundle>>

\* a handshake that sends no session_state
SendSessionState_none(c) ==
    /\ pc[c] \in {"auth_ok", "subscribed"}
    /\ pc' = [pc EXCEPT ![c] = "idle"]
    /\ reply' = NoReply
    /\ UNCHANGED <<now, db, frame, session_lock, ws_idempotency, applied,
                   outbox, radio_jobs, command_times, connVars>>

\* the session_state frame after auth_ok (read when it is sent) and after
\* `subscribed` (read before the socket was subscribed)
SendSessionState(c) ==
    /\ pc[c] \in {"auth_ok", "subscribed"}
    /\ outbox' = [outbox EXCEPT ![c] =
          Append(@, IF pc[c] = "auth_ok"
                    THEN Frame("session_state", current_session_id[c],
                               get_session_state_payload(
                                   db, current_session_id[c]),
                               "initial")
                    ELSE Frame("session_state", current_session_id[c],
                               bundle[c], "subscribed"))]
    /\ pc' = [pc EXCEPT ![c] = "idle"]
    /\ reply' = NoReply
    /\ UNCHANGED <<now, db, frame, session_lock, ws_idempotency, applied,
                   radio_jobs, command_times, connVars>>

\* a subscribe_session frame, up to the `subscribed` frame
SubscribeSession(c) ==
    /\ pc[c] = "idle"
    /\ Len(outbox[c]) < MaxOutbox
    /\ \E s \in Sessions :
         /\ bundle' = [bundle EXCEPT ![c] = get_session_state_payload(db, s)]
         /\ current_session_id' = [current_session_id EXCEPT ![c] = s]
         /\ connections_by_session' = subscribe(connections_by_session, s, c)
         /\ outbox' = [outbox EXCEPT ![c] =
                          Append(@, Frame("subscribed", s, NoBundle, ""))]
    /\ pc' = [pc EXCEPT ![c] = "subscribed"]
    /\ reply' = NoReply
    /\ UNCHANGED <<now, db, frame, session_lock, ws_idempotency, applied,
                   radio_jobs, command_times>>

ConnSpecCommands ==
    {"create_fire_object", "pause_lesson", "push_radio_message"}

\* a frame of type "command": the checks before the session lock
ReceiveFrame(c) ==
    /\ pc[c] = "idle"
    /\ current_session_id[c] = "s1"
    /\ Len(outbox[c]) < MaxOutbox
    /\ \E kind \in {"no_command_id", "long_command_id", "no_command",
                    "unknown_command", "command"} :
         /\ reply' = [NoReply EXCEPT !.kind = "frame", !.command = kind]
         /\ IF kind = "command"
            THEN /\ command_times[c] = <<>>
                 /\ \E command \in ConnSpecCommands :
                      /\ FrameWithinBounds(command)
                      /\ frame' = [frame EXCEPT ![c] =
                            [user |-> ConnUser(c), command |-> command,
                             arg |-> IF command = "create_fire_object"
                                     THEN "seat"
                                     ELSE IF command = "pause_lesson"
                                     THEN "none" ELSE "voice",
                             commandId |-> ConnCommandId(c)]]
                 /\ command_times' = [command_times EXCEPT ![c] = <<now>>]
                 /\ pc' = [pc EXCEPT ![c] = "wait_lock"]
                 /\ UNCHANGED outbox
            ELSE /\ outbox' = [outbox EXCEPT ![c] = Append(@,
                       ErrorFrame(IF kind \in {"no_command_id",
                                               "long_command_id"}
                                  THEN "" ELSE ConnCommandId(c),
                                  IF kind = "unknown_command" THEN 400
                                  ELSE 422))]
                 /\ UNCHANGED <<pc, frame, command_times>>
    /\ UNCHANGED <<now, db, session_lock, ws_idempotency, applied,
                   radio_jobs, connVars>>

\* the end of `async with session_lock`: commit and bundle read, or the
\* error frame of the exception
ConnCommit(c, r) ==
    /\ db' = r.d
    /\ session_lock' = 0
    /\ reply' = [kind |-> "command", code |-> r.code, user |-> frame[c].user,
                 command |-> frame[c].command,
                 tick_applied |-> r.tick_applied]
    /\ IF r.code = 200
       THEN /\ pc' = [pc EXCEPT ![c] = "ack"]
            /\ bundle' = [bundle EXCEPT
                            ![c] = get_session_state_payload(r.d, "s1")]
            /\ radio_jobs' =
                 IF frame[c].command = "push_radio_message"
                 THEN radio_jobs \cup {NextRadioId(db)} ELSE radio_jobs
            /\ UNCHANGED <<frame, outbox>>
       ELSE /\ pc' = [pc EXCEPT ![c] = "idle"]
            /\ frame' = [frame EXCEPT ![c] = NoFrame]
            /\ outbox' = [outbox EXCEPT
                            ![c] = Append(@, ErrorFrame(frame[c].commandId,
                                                        r.code))]
            /\ UNCHANGED <<bundle, radio_jobs>>

ConnApply(c) ==
    /\ pc[c] = "locked"
    /\ ConnCommit(c, CommandTransaction(db, frame[c].user, frame[c].command,
                                        frame[c].arg, now))
    /\ UNCHANGED <<now, ws_idempotency, applied, command_times,
                   connections_by_session, current_session_id>>

\* the ack, then the sender's own session_state, which push_radio_message
\* skips; a send to a client that is gone raises, and the handler is left
\* through `finally`
SendAckAndState(c) ==
    /\ pc[c] \in {"ack", "state"}
    /\ \E delivered \in BOOLEAN :
         IF delivered
         THEN /\ outbox' = [outbox EXCEPT ![c] =
                    Append(@, IF pc[c] = "ack"
                              THEN Ack(frame[c].commandId, "applied")
                              ELSE Frame("session_state", "s1", bundle[c],
                                         frame[c].commandId))]
              /\ pc' = [pc EXCEPT ![c] =
                     IF pc[c] = "ack"
                          /\ frame[c].command # "push_radio_message"
                     THEN "state" ELSE "broadcast"]
              /\ UNCHANGED connections_by_session
         ELSE /\ pc' = [pc EXCEPT ![c] = "closed"]
              /\ connections_by_session' =
                     unsubscribe(connections_by_session, c)
              /\ UNCHANGED outbox
    /\ reply' = NoReply
    /\ UNCHANGED <<now, db, frame, session_lock, ws_idempotency, applied,
                   radio_jobs, command_times, current_session_id, bundle>>

\* ws_connections.broadcast(target_session_id, state_message, skip=websocket)
\* a recipient whose client is gone is stale and is unsubscribed
Broadcast(c) ==
    /\ pc[c] = "broadcast"
    /\ outbox' = [o \in Conns |->
          IF o \in connections_by_session["s1"] /\ o # c /\ pc[o] # "gone"
          THEN Append(outbox[o], Frame("session_state", "s1", bundle[c],
                                       frame[c].commandId))
          ELSE outbox[o]]
    /\ connections_by_session' =
          [s \in Sessions |->
              connections_by_session[s]
                \ {o \in connections_by_session["s1"] :
                      o # c /\ pc[o] = "gone"}]
    /\ pc' = [pc EXCEPT ![c] = "idle"]
    /\ frame' = [frame EXCEPT ![c] = NoFrame]
    /\ reply' = NoReply
    /\ UNCHANGED <<now, db, session_lock, ws_idempotency, applied,
                   radio_jobs, command_times, current_session_id, bundle>>

\* the client goes away ("gone"); later receive_json raises
\* WebSocketDisconnect and `finally` unsubscribes the socket
Disconnect(c) ==
    /\ pc[c] \in {"idle", "gone"}
    /\ pc' = [pc EXCEPT ![c] = IF pc[c] = "idle" THEN "gone" ELSE "closed"]
    /\ connections_by_session' =
          IF pc[c] = "idle" THEN connections_by_session
          ELSE unsubscribe(connections_by_session, c)
    /\ reply' = NoReply
    /\ UNCHANGED <<now, db, frame, session_lock, ws_idempotency, outbox,
                   applied, radio_jobs, command_times, current_session_id,
                   bundle>>

NextConn ==
    \/ \E c \in Conns : Handshake(c)
    \/ \E c \in Conns : SendSessionState(c)
    \/ \E c \in Conns : SubscribeSession(c)
    \/ \E c \in Conns : ReceiveFrame(c)
    \/ \E c \in Conns : AcquireLock(c)
    \/ \E c \in Conns : ConnApply(c)
    \/ \E c \in Conns : SendAckAndState(c)
    \/ \E c \in Conns : Broadcast(c)
    \/ \E c \in Conns : Disconnect(c)

SpecConn == InitConn /\ [][NextConn]_vars

-----------------------------------------------------------------------------
(* SpecIdle: the read loops of the sockets of a running lesson to which    *)
(* nobody sends a command.  A subscribed socket waits in                   *)
(* asyncio.wait_for(receive_json(), SIMULATION_LOOP_INTERVAL_SEC): pc is   *)
(* "idle" while the wait began within the second the clock shows, and      *)
(* "waited" once the clock shows the next second; the wait then runs out   *)
(* before the clock moves again, unless a frame arrives first.  Every      *)
(* frame is read by its client before the next one is sent.                *)

\* a lesson started at time 0 with the shortest time limit, at 30x
IdleDb ==
    apply_start_lesson_command(
        InitDb(EmptyScene, 300), LESSON_TIME_LIMIT_MIN_SEC, 0).d

InitIdle ==
    /\ now = 0
    /\ db = IdleDb
    /\ reply = NoReply
    /\ pc = [c \in Conns |-> "idle"]
    /\ frame = [c \in Conns |-> NoFrame]
    /\ session_lock = 0
    /\ ws_idempotency = EmptyStore
    /\ outbox = [c \in Conns |-> <<>>]
    /\ applied = [k \in CacheKeys |-> <<>>]
    /\ radio_jobs = {}
    /\ command_times = [c \in Conns |-> <<>>]
    /\ bundle = [c \in Conns |-> NoBundle]
    /\ \E s \in Sessions \cup {NoneStr} :
         /\ current_session_id = [c \in Conns |-> IF c = 1 THEN "s1" ELSE s]
         /\ connections_by_session =
              [t \in Sessions |-> {c \in Conns : (IF c = 1 THEN "s1" ELSE s) = t}]

\* the clock shows the next second; a pending wait_for that has lasted
\* SIMULATION_LOOP_INTERVAL_SEC has run out before it does
ClockSecond ==
    /\ now + SIMULATION_LOOP_INTERVAL_SEC <= MaxNow
    /\ \A c \in Conns : pc[c] # "waited"
    /\ now' = now + SIMULATION_LOOP_INTERVAL_SEC
    /\ pc' = [c \in Conns |->
                 IF pc[c] = "idle" /\ current_session_id[c] # NoneStr
                 THEN "waited" ELSE pc[c]]
    /\ reply' = NoReply
    /\ UNCHANGED <<db, frame, session_lock, ws_idempotency, outbox, applied,
                   radio_jobs, command_times, connVars>>

\* maybe_apply_runtime_tick_and_broadcast once the tick transaction gave r
IdleTickAndBroadcast(c, r) ==
    /\ db' = r.d
    /\ reply' = [NoReply EXCEPT !.kind = "tick", !.code = r.code,
                                !.tick_applied = (r.code = 200)]
    /\ outbox' = [o \in Conns |->
          IF r.code = 200 /\ o \in connections_by_session["s1"]
          THEN <<Frame("session_state", "s1",
                       get_session_state_payload(r.d, "s1"), "tick")>>
          ELSE IF r.code = 500 /\ o = c
          THEN <<ErrorFrame("", 500)>>
          ELSE outbox[o]]

\* except asyncio.TimeoutError: the tick of the socket's session, then the
\* next wait; session "s2" is not IN_PROGRESS and its tick returns False
ReceiveTimeout(c) ==
    /\ pc[c] = "waited"
    /\ session_lock = 0
    /\ IF current_session_id[c] = "s1"
       THEN IdleTickAndBroadcast(c, TickTransaction(db, now))
       ELSE /\ reply' = [NoReply EXCEPT !.kind = "tick"]
            /\ UNCHANGED <<db, outbox>>
    /\ pc' = [pc EXCEPT ![c] = "idle"]
    /\ UNCHANGED <<now, frame, session_lock, ws_idempotency, applied,
                   radio_jobs, command_times, connVars>>

\* the frames that are no command: ping, subscribe_session, a frame that is
\* no JSON, no object or of an unknown type.  Each is answered and the loop
\* starts the next wait_for with a full interval.  Socket 1 stays with
\* session "s1".
NonCommandFrame(c) ==
    /\ pc[c] \in {"idle", "waited"}
    /\ \E kind \in {"ping", "subscribe_session", "not_json", "not_object",
                    "unknown_type"} :
         /\ reply' = [NoReply EXCEPT !.kind = "frame", !.command = kind]
         /\ IF kind = "subscribe_session"
            THEN \E s \in (IF c = 1 THEN {"s1"} ELSE Sessions) :
                   /\ bundle' = [bundle EXCEPT
                                    ![c] = get_session_state_payload(db, s)]
                   /\ current_session_id' =
                          [current_session_id EXCEPT ![c] = s]
                   /\ connections_by_session' =
                          subscribe(connections_by_session, s, c)
                   /\ outbox' = [outbox EXCEPT ![c] =
                          <<Frame("session_state", s,
                                  get_session_state_payload(db, s),
                                  "subscribed")>>]
            ELSE /\ outbox' = [outbox EXCEPT ![c] =
                        IF kind = "ping"
                        THEN <<Frame("pong", NoneStr, NoBundle, "")>>
                        ELSE <<ErrorFrame("", IF kind = "not_json" THEN 500
                                              ELSE IF kind = "not_object"
                                              THEN 422 ELSE 400)>>]
                 /\ UNCHANGED connVars
    /\ pc' = [pc EXCEPT ![c] = "idle"]
    /\ UNCHANGED <<now, db, frame, session_lock, ws_idempotency, applied,
                   radio_jobs, command_times>>

NextIdle ==
    \/ ClockSecond
    \/ \E c \in Conns : ReceiveTimeout(c)
    \/ \E c \in Conns : NonCommandFrame(c)

\* time passes, and a wait_for that has run out raises TimeoutError in its
\* task unless a frame reached the socket first
SpecIdle ==
    /\ InitIdle
    /\ [][NextIdle]_vars
    /\ WF_vars(ClockSecond)
    /\ \A c \in Conns : WF_vars(ReceiveTimeout(c))

-----------------------------------------------------------------------------
(* SpecSnapshot: the is_current flags of a session's snapshot rows under   *)
(* commands and ticks.  The session starts with the rows the REST API left *)
(* it, at most one of them current; the rows hold one content.             *)

SnapshotSpecCommands ==
    {"update_snapshot", "start_lesson", "pause_lesson", "resume_lesson",
     "create_fire_object"}

SnapshotSpecArgs(command) ==
    IF command = "update_snapshot"
    THEN {"notes", "current", "not_current", "dry_runtime"}
    ELSE IF command = "create_fire_object" THEN {"seat"}
    ELSE IF command = "start_lesson" THEN {"default"}
    ELSE {"none"}

InitSnapshot ==
    /\ now = 0
    /\ db \in {[InitDb(EmptyScene, 300) EXCEPT !.snapshots = rows] :
                  rows \in {<<>>, <<TRUE>>, <<FALSE>>, <<FALSE, FALSE>>,
                            <<TRUE, FALSE>>, <<FALSE, TRUE>>}}
    /\ reply = NoReply
    /\ InitWs

SnapshotCommand ==
    \E user \in {"lead"}, command \in SnapshotSpecCommands :
      \E arg \in SnapshotSpecArgs(command) :
        /\ WithinBounds(db, command)
        /\ CommitCommand(CommandTransaction(db, user, command, arg, now),
                         user, command)
        /\ UNCHANGED <<now, wsVars>>

NextSnapshot == AdvanceClock \/ SnapshotCommand \/ LessonIdleTick

SpecSnapshot == InitSnapshot /\ [][NextSnapshot]_vars

-----------------------------------------------------------------------------
(* The command path of a user whose auth session ends while the socket
   stays open (main.py logout_current_session, ws.py ensure_ws_actor_active) *)

InitAuth ==
    /\ now = 0
    /\ db \in {[StartedDb(EmptyScene, 300, <<>>) EXCEPT
                   !.auth_expires_at = expires_at] :
                 expires_at \in {SIMULATION_MAX_STEP_REAL_SEC,
                                 AuthSessionLifetime}}
    /\ reply = NoReply
    /\ InitWs

\* POST /api/auth/logout: the auth session of the user is revoked
RevokeAuthSession ==
    /\ \E user \in {ConnUser(c) : c \in Conns} :
          /\ user \notin db.auth_revoked
          /\ db' = [db EXCEPT !.auth_revoked = @ \cup {user}]
    /\ reply' = NoReply
    /\ UNCHANGED <<now, wsVars>>

NextAuth ==
    \/ WsAdvanceClock
    \/ RevokeAuthSession
    \/ \E c \in Conns : ReceiveCommand(c)
    \/ \E c \in Conns : AcquireLock(c)
    \/ \E c \in Conns : ApplyCommand(c)
    \/ \E c \in Conns : PutAck(c)

SpecAuth == InitAuth /\ [][NextAuth]_vars

-----------------------------------------------------------------------------
(* Session scope: the socket of an account without global scope, the socket
   of a training lead, and an administrator who reassigns the account.
   Each handler runs without interleaving here. *)

ScopeUser(c) == IF c = 1 THEN "hq" ELSE "lead"

InitScope ==
    /\ now = 0
    /\ db = StartedDb(EmptyScene, 300, <<>>)
    /\ reply = NoReply
    /\ pc = [c \in Conns |-> "connecting"]
    /\ frame = [c \in Conns |-> NoFrame]
    /\ session_lock = 0
    /\ ws_idempotency = EmptyStore
    /\ outbox = [c \in Conns |-> <<>>]
    /\ applied = [k \in CacheKeys |-> <<>>]
    /\ radio_jobs = {}
    /\ command_times = [c \in Conns |-> <<>>]
    /\ connections_by_session = [s \in Sessions |-> {}]
    /\ current_session_id = [c \in Conns |-> NoneStr]
    /\ bundle = [c \in Conns |-> NoBundle]

OutboxesWithinBounds == \A o \in Conns : Len(outbox[o]) < MaxOutbox

\* PATCH /api/users/{user_id} by an administrator: User.session_id
ReassignUser ==
    /\ \E session_id \in {NoneStr, "s1"} \ {db.user_session_id} :
          db' = [db EXCEPT !.user_session_id = session_id]
    /\ reply' = NoReply
    /\ UNCHANGED <<now, wsVars>>

\* the session a handshake asks for: sessionId of the auth frame, or
\* User.session_id without it (unset for the accounts with global scope)
requested_session_id(d, user, sessionId) ==
    IF sessionId # NoneStr THEN sessionId
    ELSE IF has_global_session_scope(user) THEN NoneStr
    ELSE d.user_session_id

\* realtime_ws_endpoint up to the initial session_state
ScopeHandshake(c) ==
    /\ pc[c] = "connecting"
    /\ \E sessionId \in Sessions \cup {NoneStr} :
         LET s == requested_session_id(db, ScopeUser(c), sessionId)
             allowed == s = NoneStr
                          \/ /\ has_permission(ScopeUser(c), "sessions:read")
                             /\ assert_session_scope(db, ScopeUser(c), s)
         IN  /\ reply' = [NoReply EXCEPT
                            !.kind = "first_frame",
                            !.user = ScopeUser(c),
                            !.code = IF allowed THEN 200 ELSE 403]
             /\ IF allowed
                THEN /\ current_session_id' =
                           [current_session_id EXCEPT ![c] = s]
                     /\ connections_by_session' =
                           IF s = NoneStr THEN connections_by_session
                           ELSE subscribe(connections_by_session, s, c)
                     /\ outbox' = [outbox EXCEPT ![c] =
                           IF s = NoneStr
                           THEN Append(@, Frame("auth_ok", s, NoBundle, ""))
                           ELSE @ \o
                                <<Frame("auth_ok", s, NoBundle, ""),
                                  Frame("session_state", s,
                                        get_session_state_payload(db, s),
                                        "")>>]
                     /\ pc' = [pc EXCEPT ![c] = "idle"]
                ELSE /\ outbox' = [outbox EXCEPT ![c] =
                           Append(@, Frame("error", NoneStr, NoBundle, ""))]
                     /\ pc' = [pc EXCEPT ![c] = "closed_1008"]
                     /\ UNCHANGED <<current_session_id,
                                    connections_by_session>>
    /\ UNCHANGED <<now, db, frame, session_lock, ws_idempotency, applied,
                   radio_jobs, command_times, bundle>>

\* the subscribe_session frame
ScopeSubscribe(c) ==
    /\ pc[c] = "idle"
    /\ OutboxesWithinBounds
    /\ \E s \in Sessions :
         LET allowed == /\ ensure_ws_actor_active(db, ScopeUser(c), now)
                        /\ has_permission(ScopeUser(c), "sessions:read")
                        /\ assert_session_scope(db, ScopeUser(c), s)
         IN  /\ reply' = [NoReply EXCEPT
                            !.kind = "subscribe_session",
                            !.user = ScopeUser(c),
                            !.code = IF allowed THEN 200 ELSE 403]
             /\ IF allowed
                THEN /\ current_session_id' =
                           [current_session_id EXCEPT ![c] = s]
                     /\ connections_by_session' =
                           subscribe(connections_by_session, s, c)
                     /\ outbox' = [outbox EXCEPT ![c] =
                           @ \o <<Frame("subscribed", s, NoBundle, ""),
                                  Frame("session_state", s,
                                        get_session_state_payload(db, s),
                                        "")>>]
                ELSE /\ outbox' = [outbox EXCEPT ![c] =
                           Append(@, ErrorFrame("", 403))]
                     /\ UNCHANGED <<current_session_id,
                                    connections_by_session>>
    /\ UNCHANGED <<now, db, pc, frame, session_lock, ws_idempotency, applied,
                   radio_jobs, command_times, bundle>>

\* the transaction of a command frame for target_session_id
ScopedCommandTransaction(d, user, target_session_id, command, arg, t) ==
    IF /\ ensure_ws_actor_active(d, user, t)
       /\ has_permission(user, WS_COMMAND_PERMISSIONS(command))
       /\ ~ assert_session_scope(d, user, target_session_id)
    THEN [code |-> 403, d |-> d, tick_applied |-> FALSE]
    ELSE CommandTransaction(d, user, command, arg, t)

\* the answer to a command frame: error, or ack and session_state to the
\* sender and session_state to the other subscribers of the session
ScopeCommit(c, target_session_id, command, r) ==
    /\ db' = r.d
    /\ reply' = [kind |-> "command", code |-> r.code, user |-> ScopeUser(c),
                 command |-> command, tick_applied |-> r.tick_applied]
    /\ radio_jobs' =
         IF r.code = 200 /\ command = "push_radio_message"
         THEN radio_jobs \cup {NextRadioId(db)} ELSE radio_jobs
    /\ outbox' =
         [o \in Conns |->
             IF r.code # 200
             THEN IF o = c
                  THEN Append(outbox[o], ErrorFrame(ConnCommandId(c), r.code))
                  ELSE outbox[o]
             ELSE IF o = c
             THEN outbox[o] \o
                  <<Ack(ConnCommandId(c), "applied"),
                    Frame("session_state", target_session_id,
                          get_session_state_payload(r.d, target_session_id),
                          ConnCommandId(c))>>
             ELSE IF o \in connections_by_session[target_session_id]
             THEN Append(outbox[o],
                         Frame("session_state", target_session_id,
                               get_session_state_payload(
                                   r.d, target_session_id),
                               ConnCommandId(c)))
             ELSE outbox[o]]

\* a command frame of the account (for either session) or of the lead
ScopeCommand(c) ==
    /\ pc[c] = "idle"
    /\ OutboxesWithinBounds
    /\ \E target_session_id \in
            IF has_global_session_scope(ScopeUser(c)) THEN {"s1"}
            ELSE Sessions :
         \E command \in ConnSpecCommands :
           /\ FrameWithinBounds(command)
           /\ ScopeCommit(c, target_session_id, command,
                          ScopedCommandTransaction(
                              db, ScopeUser(c), target_session_id, command,
                              IF command = "create_fire_object" THEN "seat"
                              ELSE IF command = "pause_lesson" THEN "none"
                              ELSE "voice", now))
    /\ UNCHANGED <<now, pc, frame, session_lock, ws_idempotency, applied,
                   command_times, connVars>>

NextScope ==
    \/ ReassignUser
    \/ \E c \in Conns : ScopeHandshake(c)
    \/ \E c \in Conns : ScopeSubscribe(c)
    \/ \E c \in Conns : ScopeCommand(c)

SpecScope == InitScope /\ [][NextScope]_vars

-----------------------------------------------------------------------------
(* The rate limiter under a burst: two sockets of one user replay a command
   that was acknowledged before, so that no frame reaches the lock *)

MaxRateNow == 1
MaxRateFrames == WS_MAX_COMMANDS_PER_WINDOW + 1

InitRate ==
    /\ now = 0
    /\ db = StartedDb(EmptyScene, 300, <<>>)
    /\ reply = NoReply
    /\ pc = [c \in Conns |-> "idle"]
    /\ frame = [c \in Conns |-> NoFrame]
    /\ session_lock = 0
    /\ ws_idempotency \in
         {idempotency_put(EmptyStore,
                          command_cache_key(ConnUser(c), commandId), 0) :
            c \in Conns, commandId \in CommandIds}
    /\ outbox = [c \in Conns |-> <<>>]
    /\ applied = [k \in CacheKeys |-> <<>>]
    /\ radio_jobs = {}
    /\ command_times = [c \in Conns |-> <<>>]
    /\ connections_by_session = [s \in Sessions |-> Conns]
    /\ current_session_id = [c \in Conns |-> "s1"]
    /\ bundle = [c \in Conns |-> NoBundle]

RateClock ==
    /\ now < MaxRateNow
    /\ now' = now + WS_RATE_LIMIT_WINDOW_SECONDS
    /\ reply' = NoReply
    /\ UNCHANGED <<db, wsVars>>

\* a command frame with an acknowledged commandId: the rate limiter, then
\* the idempotency lookup
RateReceive(c) ==
    /\ pc[c] = "idle"
    /\ Len(outbox[c]) < MaxRateFrames
    /\ \E commandId \in CommandIds :
         IF rate_limited(command_times[c], now)
         THEN ReceiveRateLimited(c, commandId)
         ELSE ReceiveCommandLookup(
                  c, "create_fire_object", "seat", commandId,
                  idempotency_get(
                      ws_idempotency,
                      command_cache_key(ConnUser(c), commandId), now))
    /\ reply' = NoReply
    /\ UNCHANGED <<now, db, session_lock, applied, radio_jobs, connVars>>

NextRate == RateClock \/ \E c \in Conns : RateReceive(c)

SpecRate == InitRate /\ [][NextRate]_vars

-----------------------------------------------------------------------------
(* Idle ticks over deployments that were placed before: nozzles behind one
   splitter, and a vehicle whose newest deployment is completed *)

InitHose ==
    /\ now = 0
    /\ db \in {[StartedDb(EmptyScene, 300, deployments) EXCEPT
                   !.fire_objects = fire_objects] :
                 deployments \in
                    {<<>>,
                     <<DeploymentPayload("nozzle_on_splitter"),
                       DeploymentPayload("nozzle_on_splitter")>>,
                     <<DeploymentPayload("vehicle"),
                       DeploymentPayload("vehicle_completed")>>},
                 fire_objects \in {<<>>, <<FireObjectPayload("seat")>>}}
    /\ reply = NoReply
    /\ InitWs

NextHose == IdleInterval \/ LessonIdleTick

SpecHose == InitHose /\ [][NextHose]_vars

-----------------------------------------------------------------------------
(* Sockets that leave: the connections of SpecConn over a running lesson
   whose idle tick is due, so that a tick is broadcast to every subscriber *)

InitLeave ==
    /\ now = SIMULATION_LOOP_INTERVAL_SEC
    /\ db = IdleDb
    /\ reply = NoReply
    /\ pc = [c \in Conns |-> "connecting"]
    /\ frame = [c \in Conns |-> NoFrame]
    /\ session_lock = 0
    /\ ws_idempotency = EmptyStore
    /\ outbox = [c \in Conns |-> <<>>]
    /\ applied = [k \in CacheKeys |-> <<>>]
    /\ radio_jobs = {}
    /\ command_times = [c \in Conns |-> <<>>]
    /\ connections_by_session = [s \in Sessions |-> {}]
    /\ current_session_id = [c \in Conns |-> NoneStr]
    /\ bundle = [c \in Conns |-> NoBundle]

\* maybe_apply_runtime_tick_and_broadcast once the tick transaction gave r:
\* the state goes to every subscriber, the sender's socket included; a
\* socket whose send fails is unsubscribed
TickAndBroadcast(c, r) ==
    /\ db' = r.d
    /\ reply' = [NoReply EXCEPT !.kind = "tick", !.code = r.code,
                                !.tick_applied = (r.code = 200)]
    /\ outbox' = [o \in Conns |->
          IF r.code = 200 /\ o \in connections_by_session["s1"]
                /\ pc[o] # "gone"
          THEN Append(outbox[o],
                      Frame("session_state", "s1",
                            get_session_state_payload(r.d, "s1"), "tick"))
          ELSE IF r.code = 500 /\ o = c
          THEN Append(outbox[o], ErrorFrame("", 500))
          ELSE outbox[o]]
    /\ connections_by_session' =
          IF r.code # 200 THEN connections_by_session
          ELSE [s \in Sessions |->
                  connections_by_session[s]
                    \ {o \in connections_by_session["s1"] : pc[o] = "gone"}]

\* except asyncio.TimeoutError on a socket of session "s1"
LeaveTimeout(c) ==
    /\ pc[c] = "idle"
    /\ current_session_id[c] = "s1"
    /\ session_lock = 0
    /\ Len(outbox[c]) < MaxOutbox
    /\ TickAndBroadcast(c, TickTransaction(db, now))
    /\ UNCHANGED <<now, pc, frame, session_lock, ws_idempotency, applied,
                   radio_jobs, command_times, current_session_id, bundle>>

NextLeave ==
    \/ \E c \in Conns : Handshake(c)
    \/ \E c \in Conns : SendSessionState(c)
    \/ \E c \in Conns : ReceiveFrame(c)
    \/ \E c \in Conns : AcquireLock(c)
    \/ \E c \in Conns : ConnApply(c)
    \/ \E c \in Conns : SendAckAndState(c)
    \/ \E c \in Conns : Broadcast(c)
    \/ \E c \in Conns : Disconnect(c)
    \/ \E c \in Conns : LeaveTimeout(c)

SpecLeave == InitLeave /\ [][NextLeave]_vars

-----------------------------------------------------------------------------
(* Lifecycle claims *)

LifecycleEdges ==
    {<<LESSON_LIFECYCLE_DRAFT, LESSON_LIFECYCLE_RUNNING>>,
     <<LESSON_LIFECYCLE_RUNNING, LESSON_LIFECYCLE_PAUSED>>,
     <<LESSON_LIFECYCLE_PAUSED, LESSON_LIFECYCLE_RUNNING>>,
     <<LESSON_LIFECYCLE_RUNNING, LESSON_LIFECYCLE_COMPLETED>>,
     <<LESSON_LIFECYCLE_PAUSED, LESSON_LIFECYCLE_COMPLETED>>}

LifecycleStep(from, to) == from = to \/ <<from, to>> \in LifecycleEdges

\* session.status read as a lifecycle state
StatusAsLifecycle(status) ==
    IF status = "IN_PROGRESS" THEN LESSON_LIFECYCLE_RUNNING
    ELSE IF status = "PAUSED" THEN LESSON_LIFECYCLE_PAUSED
    ELSE IF status = "COMPLETED" THEN LESSON_LIFECYCLE_COMPLETED
    ELSE LESSON_LIFECYCLE_DRAFT

\* C3: session.status and training_lesson.lifecycle_status change only
\* along DRAFT->RUNNING, RUNNING->PAUSED, PAUSED->RUNNING, RUNNING->COMPLETED
\* and PAUSED->COMPLETED; nothing leaves COMPLETED.
C3_LifecycleOnlyAlongEdges ==
    [][/\ LifecycleStep(LifecycleOf(db), LifecycleOf(db'))
       /\ LifecycleStep(StatusAsLifecycle(db.status),
                        StatusAsLifecycle(db'.status))]_vars

\* the lesson commands that are illegal in a session state
IllegalLessonCommand(status, command) ==
    \/ status = "CREATED"
         /\ command \in {"pause_lesson", "resume_lesson", "finish_lesson"}
    \/ status \in {"IN_PROGRESS", "PAUSED", "COMPLETED"}
         /\ command = "start_lesson"
    \/ status = "PAUSED" /\ command = "pause_lesson"
    \/ status = "COMPLETED" /\ command \in LessonCommands

\* C5: an illegal lesson command of an authorised sender is answered with
\* 409 and leaves the session status and the snapshot as they were.
C5_IllegalCommandIs409 ==
    [][(/\ reply'.kind = "command"
        /\ reply'.user = "lead"
        /\ IllegalLessonCommand(db.status, reply'.command))
         => (reply'.code = 409 /\ db' = db)]_vars

\* C10: no committed state has a RUNNING lesson whose elapsed_game_sec has
\* reached its time_limit_sec.
C10_NoRunningPastLimit ==
    ~ (/\ LifecycleOf(db) = LESSON_LIFECYCLE_RUNNING
       /\ db.lesson.time_limit_sec # None
       /\ db.lesson.elapsed_game_sec # None
       /\ db.lesson.elapsed_game_sec >= db.lesson.time_limit_sec)

-----------------------------------------------------------------------------
(* Fire and water claims *)

\* C7: after a tick every fire object has 0 <= area_m2 <= max_area_m2.
C7_AreaWithinMax ==
    (reply.kind = "tick" /\ reply.code = 200)
      => \A i \in DOMAIN db.fire_objects :
            /\ OrDefault(db.fire_objects[i].area_m2, 0) >= 0
            /\ db.fire_objects[i].max_area_m2 # None
                 => OrDefault(db.fire_objects[i].area_m2, 0)
                      <= db.fire_objects[i].max_area_m2

\* C8: a committed tick never increases a vehicle's water_remaining_l and
\* leaves it within [0, capacity], whatever commands preceded the tick.
C8_WaterWithinCapacity ==
    [][(reply'.kind = "tick" /\ reply'.code = 200)
         => \A v \in VehicleIds :
              /\ db'.vehicle_runtime[v] # None
                   => /\ db'.vehicle_runtime[v] >= 0
                      /\ db'.vehicle_runtime[v]
                           <= fallback_vehicle_water_capacity(v)
              /\ (db.vehicle_runtime[v] # None
                    /\ db'.vehicle_runtime[v] # None)
                   => db'.vehicle_runtime[v] <= db.vehicle_runtime[v]]_vars

\* the deployments that are strict_chain nozzles without a resolvable hose
UnresolvableStrictNozzles(d) ==
    {i \in DOMAIN d.deployments :
        /\ d.deployments[i].resource_kind = "NOZZLE"
        /\ d.deployments[i].status # "COMPLETED"
        /\ d.deployments[i].strict_chain
        /\ d.deployments[i].linked_hose_line_id = NoneStr}

\* C9: every tick over a burning scene (committed or raised) leaves, for
\* each strict_chain nozzle without a resolvable vehicle, a runtime entry
\* with has_water false, a blocked_reason and an effective flow of 0.
C9_StrictNozzleBlocked ==
    (reply.kind = "tick" /\ reply.code # 0 /\ db.fire_objects # <<>>)
      => \A i \in UnresolvableStrictNozzles(db) :
            \E entry \in db.nozzle_runtime :
               /\ entry.deployment = i
               /\ entry.has_water = FALSE
               /\ entry.blocked_reason # NoneStr
               /\ entry.effective_flow_l_s = 0

-----------------------------------------------------------------------------
(* Concurrency and idempotency claims *)

LockHolders == {c \in Conns : pc[c] \in {"locked", "tick_locked"}}

Mutex ==
    /\ Cardinality(LockHolders) <= 1
    /\ LockHolders # {} => session_lock \in LockHolders

TickCounterStep ==
    db'.health.ticks_total =
        db.health.ticks_total + (IF reply'.tick_applied THEN 1 ELSE 0)

Acknowledged(commandId) ==
    \E c \in Conns : \E i \in DOMAIN outbox[c] :
       outbox[c][i] = Ack(commandId, "applied")

\* connection c takes a command frame off its socket in this step
ReceiveStep(c) ==
    /\ pc[c] = "idle"
    /\ \/ pc'[c] = "wait_lock"
       \/ Len(outbox'[c]) > Len(outbox[c])

ReceivedId(c) ==
    IF pc'[c] = "wait_lock" THEN frame'[c].commandId
    ELSE outbox'[c][Len(outbox'[c])].commandId

AnsweredAsDuplicate(c) ==
    /\ outbox'[c] = Append(outbox[c], Ack(ReceivedId(c), "duplicate"))
    /\ pc'[c] = "idle"
    /\ db' = db
    /\ applied' = applied

\* C4: a command sent again with the same (user, session, commandId) after
\* it was acknowledged as applied is answered with ack(duplicate) and
\* mutates nothing.
C4_ReplayIsDuplicate ==
    [][\A c \in Conns :
          (ReceiveStep(c) /\ Acknowledged(ReceivedId(c)))
             => AnsweredAsDuplicate(c)]_vars

StillCached(c) ==
    /\ ~ rate_limited(command_times[c], now)
    /\ cleanup_locked(ws_idempotency, now)[
           command_cache_key(ConnUser(c), ReceivedId(c))] # None

\* C4 (amended): a command sent again after it was acknowledged as applied,
\* while its ack is still in the idempotency store and the frame passes
\* the rate limiter, is answered with ack(duplicate) and mutates nothing.
C4_CachedReplayIsDuplicate ==
    [][\A c \in Conns :
          (ReceiveStep(c) /\ Acknowledged(ReceivedId(c)) /\ StillCached(c))
             => AnsweredAsDuplicate(c)]_vars

\* create_fire_object sent twice: one row, ack(applied) then ack(duplicate)
C4_Witness ==
    \E c \in Conns :
       /\ outbox[c] = <<Ack("k1", "applied"), Ack("k1", "duplicate")>>
       /\ Len(db.fire_objects) = 1
       /\ Len(applied[command_cache_key(ConnUser(c), "k1")]) = 1

\* C6: every step that changes the session's persisted state is taken by
\* the coroutine that holds the session lock; the radio transcription
\* write-back included.
C6_MutationsUnderLock ==
    [][db' # db
         => \E c \in Conns : /\ session_lock = c
                             /\ pc[c] \in {"locked", "tick_locked"}
                             /\ pc'[c] # pc[c]]_vars

-----------------------------------------------------------------------------
(* Deployment and scene claims *)

\* the answer of this step is to a create_resource_deployment of a combat
\* area role
CombatAreaDeploymentAnswered ==
    /\ reply'.kind = "command"
    /\ reply'.command = "create_resource_deployment"
    /\ resolve_combat_area_role_for_user(reply'.user) # NoneStr

\* C11: a create_resource_deployment of a combat area role is answered with
\* 409 and creates no deployment while RTP has not placed the area's
\* command point marker, and is applied once RTP has placed it.
C11_CombatAreaWaitsForRtp ==
    [][CombatAreaDeploymentAnswered
         => IF has_rtp_command_point_for_combat_area(
                   db, resolve_combat_area_role_for_user(reply'.user))
            THEN /\ reply'.code = 200
                 /\ Len(db'.deployments) = Len(db.deployments) + 1
            ELSE /\ reply'.code = 409
                 /\ db'.deployments = db.deployments]_vars

\* the part of training_lead_scene the lesson freezes: address, floors,
\* active floor, the objects of every floor with kind and geometry
SceneShape(d) ==
    [address |-> d.scene.address,
     active_floor_id |-> d.scene.active_floor_id,
     fire_sources |-> d.scene.fire_sources,
     floors |-> [i \in 1..Len(d.scene.floors) |->
                   [floor_id |-> d.scene.floors[i].floor_id,
                    objects |->
                      [j \in 1..Len(d.scene.floors[i].objects) |->
                         [id |-> d.scene.floors[i].objects[j].id,
                          kind |-> d.scene.floors[i].objects[j].kind,
                          geometry_type |->
                              d.scene.floors[i].objects[j].geometry_type,
                          geometry |->
                              d.scene.floors[i].objects[j].geometry]]]]]

\* a command of a sender whose role may run it
CommandDuringLesson ==
    /\ reply'.kind = "command"
    /\ has_permission(reply'.user, WS_COMMAND_PERMISSIONS(reply'.command))
    /\ assert_role_allowed_for_command(reply'.user, reply'.command)
    /\ db.status \in {"IN_PROGRESS", "PAUSED"}
    /\ db'.status \in {"IN_PROGRESS", "PAUSED"}

\* C12: a command answered while the session is IN_PROGRESS or PAUSED leaves
\* the scene's address, floors, active floor, objects, kinds and geometry as
\* they were, and a scene-editing command other than upsert_scene_object is
\* answered 409.
C12_SceneFrozenDuringLesson ==
    [][CommandDuringLesson
         => /\ SceneShape(db') = SceneShape(db)
            /\ (reply'.command \in SCENE_EDIT_LOCKED_COMMANDS
                  /\ reply'.command # "upsert_scene_object")
                 => reply'.code = 409]_vars

\* connection c reads the state of session "s1" for an immediate resend
StateReadFor(c) ==
    /\ current_session_id'[c] = "s1"
    /\ \/ pc[c] = "auth_ok" /\ pc'[c] = "idle"
       \/ pc[c] = "idle" /\ pc'[c] = "subscribed"

\* C13: the session state read that is sent right after the auth handshake
\* or after subscribe_session is taken by a connection that holds the
\* session's lock.
C13_StateReadUnderLock ==
    [][\A c \in Conns : StateReadFor(c) => session_lock = c]_vars

\* C17: every socket is in the broadcast set of at most one session.
C17_SingletonSubscription ==
    \A c \in Conns :
        Cardinality({s \in Sessions : c \in connections_by_session[s]}) <= 1

\* a socket that authenticated for "s1" and later subscribed to "s2" while
\* the other socket stayed on "s1"
C17_Witness ==
    \E c \in Conns, o \in Conns :
        /\ c # o
        /\ outbox[c] # <<>>
        /\ outbox[c][1].type = "auth_ok"
        /\ outbox[c][1].sessionId = "s1"
        /\ c \in connections_by_session["s2"]
        /\ o \in connections_by_session["s1"]

HandshakeClosed(c) == pc[c] \in {"closed_1008", "closed_1011"}

SubscribedSomewhere(c) ==
    \E s \in Sessions : c \in connections_by_session[s]

\* C18 as stated: the first frame is auth_ok and the second one is the
\* initial session_state; any other first frame closes the socket with the
\* policy-violation code 1008 and the socket is subscribed to no session.
C18_AuthOkThenInitialState ==
    \A c \in Conns :
        /\ (Len(outbox[c]) >= 2 /\ outbox[c][1].type = "auth_ok")
             => /\ outbox[c][2].type = "session_state"
                /\ outbox[c][2].cause = "initial"
        /\ (outbox[c] # <<>> /\ outbox[c][1].type # "auth_ok")
             => pc[c] = "closed_1008" /\ ~ SubscribedSomewhere(c)

\* f is a session_state of session s broadcast for a command
IsBroadcastOf(f, s) ==
    /\ f.type = "session_state"
    /\ f.sessionId = s
    /\ f.cause \in {ConnCommandId(o) : o \in Conns}

\* after auth_ok only broadcasts of the subscribed session precede the
\* initial session_state, which is sent before the handshake is over
HandshakeFramesInOrder ==
    \A c \in Conns :
        /\ pc[c] \notin {"connecting", "closed_1008", "closed_1011"}
             => outbox[c] # <<>> /\ outbox[c][1].type = "auth_ok"
        /\ (outbox[c] # <<>> /\ outbox[c][1].type = "auth_ok")
             => LET s == outbox[c][1].sessionId
                    initial == {i \in 2..Len(outbox[c]) :
                                   /\ outbox[c][i].type = "session_state"
                                   /\ outbox[c][i].sessionId = s
                                   /\ outbox[c][i].cause = "initial"}
                IN  /\ pc[c] # "auth_ok" => initial # {}
                    /\ \A j \in 2..Len(outbox[c]) :
                          (\A i \in initial : j < i)
                             => IsBroadcastOf(outbox[c][j], s)
        /\ HandshakeClosed(c)
             => /\ ~ SubscribedSomewhere(c)
                /\ Len(outbox[c]) = 1
                /\ outbox[c][1].type \in {"auth_error", "error"}

\* a first frame that is JSON but no valid auth frame closes with 1008, one
\* that is not JSON with 1011
HandshakeCloseCode ==
    \A c \in Conns :
        (pc[c] = "connecting" /\ pc'[c] # "connecting")
          => pc'[c] = (IF reply'.command \in {"auth_s1", "auth_s2"}
                       THEN "auth_ok"
                       ELSE IF reply'.command = "not_json"
                       THEN "closed_1011" ELSE "closed_1008")

\* C18: after a successful auth handshake the first frame is auth_ok and
\* the initial session_state of the subscribed session follows it, preceded
\* at most by session_state broadcasts of that session; a first frame that
\* is JSON but not a valid auth frame closes the socket with 1008, one that
\* is not JSON with 1011, and the socket is never subscribed.
C18_AuthOkThenStateAfterBroadcasts ==
    []HandshakeFramesInOrder /\ [][HandshakeCloseCode]_vars

\* a socket that got a broadcast between auth_ok and its initial state
C18_Witness ==
    \E c \in Conns :
        /\ Len(outbox[c]) >= 3
        /\ outbox[c][1].type = "auth_ok"
        /\ IsBroadcastOf(outbox[c][2], outbox[c][1].sessionId)
        /\ outbox[c][3].type = "session_state"
        /\ outbox[c][3].cause = "initial"

\* connection c's command frame is refused in this step: by the checks
\* before the lock or by the transaction
RejectedFrameOf(c) ==
    \/ /\ pc[c] = "idle"
       /\ reply'.kind = "frame"
       /\ reply'.command # "command"
       /\ outbox'[c] # outbox[c]
    \/ /\ pc[c] = "locked"
       /\ pc'[c] # "locked"
       /\ reply'.kind = "command"
       /\ reply'.code # 200

\* the commandId the refused frame carried ("" when it carried none)
SentCommandId(c) ==
    IF reply'.kind = "command" THEN frame[c].commandId
    ELSE IF reply'.command = "no_command_id" THEN ""
    ELSE IF reply'.command = "long_command_id" THEN "k_longer_than_128"
    ELSE ConnCommandId(c)

\* exactly one error frame with this commandId goes to c, nothing to the
\* other sockets, and c stays open
OneErrorFrame(c, commandId) ==
    /\ \E code \in {400, 403, 404, 409, 413, 422, 429, 500} :
          /\ outbox' = [outbox EXCEPT
                          ![c] = Append(@, [type |-> "error",
                                            commandId |-> commandId,
                                            status |-> "error",
                                            code |-> code])]
          /\ reply'.kind = "command" => code = reply'.code
    /\ pc'[c] = "idle"

HandlingApplied(c) == pc[c] \in {"ack", "state", "broadcast"}

HasStateOf(o, commandId) ==
    \E i \in 1..Len(outbox[o]) :
        /\ outbox[o][i].type = "session_state"
        /\ outbox[o][i].cause = commandId

\* in c's outbox the ack of its command precedes the states caused by it
AckBeforeState(c) ==
    \A i \in 1..Len(outbox[c]) :
        (outbox[c][i].type = "session_state"
           /\ outbox[c][i].cause = ConnCommandId(c))
          => \E j \in 1..(i - 1) :
                outbox[c][j] = Ack(ConnCommandId(c), "applied")

\* the handling of c's applied command ends in this step: every socket then
\* subscribed to the session has the session_state caused by the command,
\* the sender too unless the command is push_radio_message (or the sender's
\* socket is gone)
AppliedCommandReachesAll ==
    \A c \in Conns :
        (HandlingApplied(c) /\ ~ HandlingApplied(c)')
          => /\ \A o \in connections_by_session'["s1"] \ {c} :
                   HasStateOf(o, frame[c].commandId)'
             /\ (frame[c].command # "push_radio_message"
                   /\ pc'[c] # "closed")
                   => HasStateOf(c, frame[c].commandId)'

\* C20: after a command is applied the sender receives ack{applied} before
\* any session_state caused by it, and every socket subscribed to the
\* session receives the updated session_state; only the sender may be
\* skipped, and only for push_radio_message.
C20_AckThenStateToAll ==
    [](\A c \in Conns : AckBeforeState(c)) /\ [][AppliedCommandReachesAll]_vars

\* C14: on a lesson that ticks alone advance, elapsed_game_sec is
\* round(real seconds x time_multiplier), the multiplier clamped to
\* [0.1, 30] and the real seconds counted up to the last tick without the
\* recorded dropped ticks.
C14_ElapsedIsRealTimesMultiplier ==
    OrDefault(db.lesson.elapsed_game_sec, 0)
      = RoundHalfEven10(
            (OrDefault(db.lesson.last_tick_at, 0)
               - db.health.dropped_ticks_total)
            * Clamp(db.time_multiplier, TIME_MULTIPLIER_MIN10,
                    TIME_MULTIPLIER_MAX10))


\* the lesson document of d is RUNNING and its last tick lies before t
StaleAt(d, t) ==
    /\ LifecycleOf(d) = LESSON_LIFECYCLE_RUNNING
    /\ OrDefault(d.lesson.last_tick_at, OrDefault(d.lesson.started_at, t)) < t

\* a command was committed in this step
CommandApplied ==
    /\ reply'.kind = "command"
    /\ reply'.code = 200

\* C15: every command that is applied to a RUNNING lesson whose last tick
\* lies before the wall clock is applied after a catch-up tick of the same
\* transaction: the step that commits the command commits a tick as well.
C15_CatchUpTickBeforeCommand ==
    [][CommandApplied /\ StaleAt(db, now)
          => reply'.tick_applied]_vars



\* C16: with socket 1 subscribed to the session of the running lesson for
\* the whole run and no command sent, elapsed_game_sec has increased by the
\* time the clock reaches MaxNow and no subscribed socket has a timeout
\* pending, whatever frames the sockets received.
C16_IdleTicksKeepRunning ==
    /\ now = MaxNow
    /\ \A c \in connections_by_session["s1"] : pc[c] = "idle"
    => OrDefault(db.lesson.elapsed_game_sec, 0) > 0


CurrentSnapshots(d) == {i \in DOMAIN d.snapshots : d.snapshots[i]}

C22_DryEntryHasBlockedReason ==
    (reply.kind = "tick" /\ reply.code = 200)
      => \A entry \in db.nozzle_runtime \cup db.hose_runtime :
            ~ entry.has_water => entry.blocked_reason # NoneStr

-----------------------------------------------------------------------------
(* Revoked and expired auth sessions *)

\* the auth session of the connection's user is revoked or expired
AuthSessionEnded(c) ==
    \/ ConnUser(c) \in db.auth_revoked
    \/ db.auth_expires_at <= now

\* the handler of connection c answers a frame or takes it to the lock
CommandFrameHandled(c) ==
    /\ pc[c] \in {"idle", "locked"}
    /\ pc'[c] # pc[c] \/ outbox'[c] # outbox[c]

\* C23 as stated: once the auth session of a user is revoked or expired,
\* every command frame on the open connection is answered with an error
\* of status 401, mutates nothing and leaves the connection open.
C23_EveryCommandFrameGets401 ==
    [][\A c \in Conns :
         (AuthSessionEnded(c) /\ CommandFrameHandled(c))
           => /\ db' = db
              /\ pc'[c] # "closed"
              /\ outbox'[c] # outbox[c]
                   => /\ outbox'[c][Len(outbox'[c])].type = "error"
                      /\ outbox'[c][Len(outbox'[c])].code = 401]_vars

\* C23 amended: once the auth session is revoked or expired, a command
\* frame that reaches the transaction is answered with the error 401; a
\* frame answered before the transaction gets the cached acknowledgement
\* as duplicate or the error 429; no frame mutates the session or closes
\* the connection.
C23_EndedSessionCommandRefused ==
    [][\A c \in Conns :
         (AuthSessionEnded(c) /\ CommandFrameHandled(c))
           => /\ db' = db
              /\ applied' = applied
              /\ pc'[c] \in {"idle", "wait_lock"}
              /\ pc[c] = "locked"
                   => /\ reply'.code = 401
                      /\ outbox'[c] =
                           Append(outbox[c],
                                  ErrorFrame(frame[c].commandId, 401))
              /\ (pc[c] = "idle" /\ outbox'[c] # outbox[c])
                   => \E commandId \in CommandIds :
                        outbox'[c] \in
                          {Append(outbox[c], Ack(commandId, "duplicate")),
                           Append(outbox[c], ErrorFrame(commandId, 429))}]_vars

C23_Witness ==
    /\ reply.kind = "command"
    /\ reply.code = 401
    /\ \E c \in Conns :
         /\ AuthSessionEnded(c)
         /\ pc[c] = "idle"
         /\ outbox[c] # <<>>
         /\ outbox[c][Len(outbox[c])] = ErrorFrame("k1", 401)

-----------------------------------------------------------------------------
(* Session scope *)

\* the frames connection c is sent in the step
NewFrames(c) ==
    {outbox'[c][i] : i \in (Len(outbox[c]) + 1)..Len(outbox'[c])}

\* C24: a user without global session scope never receives session_state
\* of a foreign session and never mutates one: a handshake, a
\* subscribe_session and a command for a foreign session are rejected
\* with 403, and a socket receives no broadcast of a session its user is
\* no longer assigned to.
C24_NoForeignSessionState ==
    [][\A c \in Conns :
         ~ has_global_session_scope(ScopeUser(c))
           => /\ \A sent \in NewFrames(c) :
                    sent.type = "session_state"
                      => sent.sessionId = db.user_session_id
              /\ (reply'.kind = "command" /\ reply'.user = ScopeUser(c)
                    /\ db' # db)
                   => db.user_session_id = "s1"]_vars

-----------------------------------------------------------------------------
(* Deployment workflow by role *)

\* the rule C25 states for the roles of the model
DeploymentRuleAllows(user, deployment) ==
    LET roles == canonical_user_roles(user)
    IN  \/ roles \cap {"ADMIN", "TRAINING_LEAD"} # {}
        \/ /\ "HQ" \in roles
           /\ deployment.plan_only
           /\ deployment.resource_kind \in
                 {"MARKER", "HOSE_LINE", "HOSE_SPLITTER", "NOZZLE",
                  "WATER_SOURCE"}
           /\ deployment.status \in {"PLANNED", "DEPLOYED"}
        \/ /\ "RTP" \in roles
           /\ deployment.resource_kind = "MARKER"
           /\ deployment.command_point \in {"HQ", "BU1", "BU2"}
        \/ /\ roles \cap {"COMBAT_AREA_1", "COMBAT_AREA_2"} # {}
           /\ deployment.resource_kind \in
                 {"VEHICLE", "HOSE_LINE", "HOSE_SPLITTER", "NOZZLE",
                  "MARKER", "WATER_SOURCE"}
           /\ deployment.role \in roles \cup {NoneStr}

\* C25: a create_resource_deployment is applied when the sender's role
\* rule allows the request (for a combat area: once its command point is
\* placed, else 409), and every other request is answered with 403 and
\* creates no deployment.
C25_DeploymentFollowsRoleRule ==
    [][(reply'.kind = "command"
          /\ reply'.command = "create_resource_deployment")
        => \E arg \in DeploySpecArgs("create_resource_deployment") :
             IF DeploymentRuleAllows(reply'.user, DeploymentPayload(arg))
             THEN \/ /\ reply'.code = 200
                     /\ db'.deployments =
                          Append(db.deployments, DeploymentPayload(arg))
                  \/ /\ reply'.code = 409
                     /\ resolve_combat_area_role_for_user(reply'.user)
                          # NoneStr
                     /\ db'.deployments = db.deployments
             ELSE /\ reply'.code = 403
                  /\ db'.deployments = db.deployments]_vars

-----------------------------------------------------------------------------
(* Command authorisation *)

\* the sender holds the permission of the command and a role of its
\* allow-list
SenderAuthorised(user, command) ==
    /\ canonical_user_roles(user)
          \cap PERMISSION_MATRIX(WS_COMMAND_PERMISSIONS(command)) # {}
    /\ canonical_user_roles(user) \cap WS_COMMAND_ALLOWED_ROLES(command) # {}

\* C26: a command is applied only if its sender holds the permission mapped
\* to the command and one of the sender's roles is in the command's
\* allow-list; otherwise it is answered with 403 and nothing is mutated.
C26_UnauthorisedCommandIs403 ==
    [][reply'.kind = "command"
         => IF SenderAuthorised(reply'.user, reply'.command)
            THEN reply'.code # 200 => db' = db
            ELSE reply'.code = 403 /\ db' = db]_vars

-----------------------------------------------------------------------------
(* Rate limiting *)

\* the frames of connection c that passed the rate limiter within the
\* window that ends now
WindowPasses(c) == Len(rate_window(command_times[c], now))

\* C27: per client identity at most WS_MAX_COMMANDS_PER_WINDOW commands
\* pass the rate limiter within any window of WS_RATE_LIMIT_WINDOW_SECONDS,
\* however many connections the client uses.
C27_AtMost30PerClient ==
    \A user \in Users :
       Cardinality({<<c, i>> \in Conns \X (1..WS_MAX_COMMANDS_PER_WINDOW) :
                      ConnUser(c) = user /\ i <= WindowPasses(c)})
         <= WS_MAX_COMMANDS_PER_WINDOW

-----------------------------------------------------------------------------
(* Splitters and vehicle deployments in the tick *)

\* the active strict_chain nozzles behind splitter splitter_id
SplitterNozzles(d, splitter_id) ==
    {i \in DOMAIN d.deployments :
        /\ d.deployments[i].resource_kind = "NOZZLE"
        /\ d.deployments[i].status = "ACTIVE"
        /\ ~ d.deployments[i].plan_only
        /\ d.deployments[i].strict_chain
        /\ d.deployments[i].linked_splitter_id = splitter_id}

\* round(1 / sqrt(n), 3) in thousandths, n = 1..4
BranchPressureFactor(n) ==
    IF n <= 1 THEN 1000 ELSE IF n = 2 THEN 707 ELSE IF n = 3 THEN 577
    ELSE 500

\* C28: after a tick over a burning scene every active strict_chain nozzle
\* behind a splitter has resolved the branch_pressure_factor 1/sqrt(n),
\* n being the number of such nozzles on that splitter (1/sqrt(2) for two).
C28_BranchPressureFactor ==
    (reply.kind = "tick" /\ reply.code # 0 /\ db.fire_objects # <<>>)
      => \A i \in SplitterNozzles(db, "splitter1") :
            \E entry \in db.nozzle_runtime :
               /\ entry.deployment = i
               /\ "branch_pressure_factor" \in DOMAIN entry
               /\ entry.branch_pressure_factor =
                    BranchPressureFactor(
                        Cardinality(SplitterNozzles(db, "splitter1")))

\* the vehicle ids that have a deployment that is not COMPLETED
VehiclesInUse(d) ==
    {d.deployments[i].vehicle_dictionary_id : i \in
        {j \in DOMAIN d.deployments :
            /\ d.deployments[j].resource_kind = "VEHICLE"
            /\ d.deployments[j].status # "COMPLETED"}}

\* C29: after a tick over a burning scene the water of every vehicle id
\* with a deployment that is not COMPLETED is accounted (it has a
\* vehicle_runtime entry), also when a newer deployment of that vehicle is
\* COMPLETED.
C29_NewerCompletedDoesNotHide ==
    (reply.kind = "tick" /\ reply.code # 0 /\ db.fire_objects # <<>>)
      => \A v \in VehiclesInUse(db) : db.vehicle_runtime[v] # None

-----------------------------------------------------------------------------
(* Sockets that leave *)

\* the sockets a broadcast of session_id reaches
Subscribers(session_id) == connections_by_session[session_id]

\* connection c broadcasts the state of "s1" in this step: after its
\* command (skipping itself) or after an idle tick (to itself as well)
CommandBroadcastBy(c) == pc[c] = "broadcast" /\ pc'[c] # "broadcast"

TickBroadcastBy(c) ==
    /\ reply'.kind = "tick"
    /\ reply'.code = 200
    /\ pc[c] = "idle"
    /\ Len(outbox'[c]) > Len(outbox[c])

\* every subscriber but the skipped ones: a live socket gets the frame
\* and stays subscribed, a socket whose send fails is removed
BroadcastReaches(skipped) ==
    \A o \in Subscribers("s1") \ skipped :
       IF pc[o] = "gone"
       THEN /\ \A s \in Sessions : o \notin connections_by_session'[s]
            /\ outbox'[o] = outbox[o]
       ELSE /\ o \in connections_by_session'["s1"]
            /\ Len(outbox'[o]) = Len(outbox[o]) + 1
            /\ outbox'[o][Len(outbox'[o])].type = "session_state"
            /\ outbox'[o][Len(outbox'[o])].sessionId = "s1"

\* C30: a socket whose handler has ended is in no session's broadcast
\* set; a socket whose send fails during a broadcast is removed while
\* every other subscriber still gets the frame; and the command of the
\* broadcasting connection ends as usual, the other connections keeping
\* their place and their frame.
C30_EndedSocketsLeaveBroadcast ==
    [][/\ \A c \in Conns :
            (pc'[c] \in {"closed", "closed_1008", "closed_1011"})
              => \A s \in Sessions : c \notin connections_by_session'[s]
       /\ \A c \in Conns :
            CommandBroadcastBy(c)
              => /\ BroadcastReaches({c})
                 /\ pc'[c] = "idle"
                 /\ \A o \in Conns \ {c} :
                       pc'[o] = pc[o] /\ frame'[o] = frame[o]
       /\ \A c \in Conns :
            TickBroadcastBy(c)
              => /\ BroadcastReaches({})
                 /\ pc' = pc
                 /\ frame' = frame
       /\ \A c \in Conns :
            (pc'[c] # pc[c] /\ (pc'[c] = "gone" \/ pc[c] = "gone"))
              => \A o \in Conns \ {c} :
                    /\ pc'[o] = pc[o]
                    /\ frame'[o] = frame[o]
                    /\ outbox'[o] = outbox[o]]_vars

\* an idle tick was broadcast: the socket that was gone is unsubscribed and
\* the other one got the state
C30_Witness ==
    /\ reply.kind = "tick"
    /\ reply.code = 200
    /\ \E c, o \in Conns :
         /\ pc[o] = "gone"
         /\ current_session_id[o] = "s1"
         /\ \A s \in Sessions : o \notin connections_by_session[s]
         /\ c \in connections_by_session["s1"]
         /\ outbox[c] # <<>>
         /\ outbox[c][Len(outbox[c])].type = "session_state"
         /\ outbox[c][Len(outbox[c])].cause = "tick"

-----------------------------------------------------------------------------
(* The clamped step of a tick *)

\* whole real seconds between the last tick (or the start) and now
RawDeltaRealSec ==
    now - OrDefault(db.lesson.last_tick_at, OrDefault(db.lesson.started_at, now))

\* this step committed a tick
TickApplied == reply'.kind = "tick" /\ reply'.tick_applied

\* C31: each applied tick steps min(whole real seconds since last_tick_at,
\* 4) real seconds, adds the rest of the gap to dropped_ticks_total and adds
\* exactly 1 to ticks_total, so a gap of any length advances game time by at
\* most the game seconds of one 4-second step.
C31_TickStepIsClamped ==
    [][TickApplied =>
         LET delta_real_sec ==
                 Min(RawDeltaRealSec, SIMULATION_MAX_STEP_REAL_SEC)
             advance == db'.lesson.elapsed_game_sec
                          - OrDefault(db.lesson.elapsed_game_sec, 0)
         IN  /\ RawDeltaRealSec > 0
             /\ advance = delta_game_sec_of(delta_real_sec, db.time_multiplier)
             /\ advance <= delta_game_sec_of(SIMULATION_MAX_STEP_REAL_SEC,
                                             db.time_multiplier)
             /\ db'.health.dropped_ticks_total
                  = db.health.dropped_ticks_total
                      + (RawDeltaRealSec - delta_real_sec)
             /\ db'.health.dropped_ticks_last
                  = RawDeltaRealSec - delta_real_sec
             /\ db'.health.ticks_total = db.health.ticks_total + 1
             /\ db'.lesson.last_tick_at = now]_vars

\* a tick was applied after a gap longer than one step: part of the gap was
\* dropped
C31_Witness ==
    /\ reply.kind = "tick"
    /\ reply.tick_applied
    /\ db.health.dropped_ticks_last > 0
    /\ db.health.dropped_ticks_total > db.health.dropped_ticks_last
    /\ db.health.ticks_total >= 2

-----------------------------------------------------------------------------
(* CommandIdempotencyStore as a class: a store built with a short TTL and a
   small max_entries, as the unit test builds one, under get and put.
   _entries is the dict in insertion order: <<[key, created_at, payload]>> *)

StoreTtl == 2
StoreMaxEntries == 2
MaxStoreNow == 6

StoreKeys == {"u:s:command-1", "u:s:command-2", "u:s:command-3"}
StorePayloads == {"applied", "rejected"}

\* CommandIdempotencyStore._cleanup_locked at time t
Store_cleanup_locked(entries, t, ttl_seconds) ==
    SelectSeq(entries, LAMBDA e : ~ (e.created_at < t - ttl_seconds))

\* position of entry i in sorted(keys, key=created_at); sorted is stable
SortedRank(entries, i) ==
    Cardinality({j \in DOMAIN entries :
                    \/ entries[j].created_at < entries[i].created_at
                    \/ /\ entries[j].created_at = entries[i].created_at
                       /\ j < i})

\* the entries at the positions of keep, from position i on, in order
RECURSIVE SelectByIndex(_, _, _)
SelectByIndex(entries, keep, i) ==
    IF i > Len(entries) THEN <<>>
    ELSE (IF i \in keep THEN <<entries[i]>> ELSE <<>>)
           \o SelectByIndex(entries, keep, i + 1)

\* a mutation of _trim_locked: the newest entries go first
Store_trim_locked_newest(entries, max_entries) ==
    IF Len(entries) <= max_entries THEN entries
    ELSE SubSeq(entries, 1, max_entries)

\* CommandIdempotencyStore._trim_locked
Store_trim_locked(entries, max_entries) ==
    IF Len(entries) <= max_entries THEN entries
    ELSE SelectByIndex(entries,
                       {i \in DOMAIN entries :
                           SortedRank(entries, i)
                             >= Len(entries) - max_entries},
                       1)

\* self._entries[key] = value: an existing key keeps its place in the dict
DictSet(entries, key, value) ==
    IF \E i \in DOMAIN entries : entries[i].key = key
    THEN [i \in DOMAIN entries |->
             IF entries[i].key = key THEN value ELSE entries[i]]
    ELSE Append(entries, value)

\* CommandIdempotencyStore.get: [entries, payload], payload None on a miss
Store_get(entries, key, t, ttl_seconds) ==
    LET cleaned == Store_cleanup_locked(entries, t, ttl_seconds)
    IN  [entries |-> cleaned,
         payload |->
             IF \E i \in DOMAIN cleaned : cleaned[i].key = key
             THEN cleaned[CHOOSE i \in DOMAIN cleaned :
                              cleaned[i].key = key].payload
             ELSE NoneStr]

\* CommandIdempotencyStore.put
Store_put(entries, key, payload, t, ttl_seconds, max_entries) ==
    Store_trim_locked(
        DictSet(Store_cleanup_locked(entries, t, ttl_seconds), key,
                [key |-> key, created_at |-> t, payload |-> payload]),
        max_entries)

\* applied remembers the last put of each key
NoPut == [created_at |-> 0, payload |-> NoneStr]

InitStore ==
    /\ now = 0
    /\ db = InitDb(EmptyScene, 10)
    /\ reply = [kind |-> "none", key |-> "", payload |-> NoneStr]
    /\ pc = [c \in Conns |-> "idle"]
    /\ frame = [c \in Conns |-> NoFrame]
    /\ session_lock = 0
    /\ ws_idempotency = <<>>
    /\ outbox = [c \in Conns |-> <<>>]
    /\ applied = [k \in StoreKeys |-> NoPut]
    /\ radio_jobs = {}
    /\ command_times = [c \in Conns |-> <<>>]
    /\ connections_by_session = [s \in Sessions |-> {}]
    /\ current_session_id = [c \in Conns |-> NoneStr]
    /\ bundle = [c \in Conns |-> NoBundle]

StoreUnchanged ==
    UNCHANGED <<db, pc, frame, session_lock, outbox, radio_jobs,
                command_times, connVars>>

\* utcnow() moves on, by a second or past the TTL
StoreClock ==
    /\ \E delta \in {1, StoreTtl + 1} :
          /\ now + delta <= MaxStoreNow
          /\ now' = now + delta
    /\ reply' = [kind |-> "none", key |-> "", payload |-> NoneStr]
    /\ UNCHANGED <<ws_idempotency, applied>>
    /\ StoreUnchanged

StoreGet ==
    /\ \E key \in StoreKeys :
         LET got == Store_get(ws_idempotency, key, now, StoreTtl)
         IN  /\ ws_idempotency' = got.entries
             /\ reply' = [kind |-> "get", key |-> key,
                          payload |-> got.payload]
    /\ UNCHANGED <<now, applied>>
    /\ StoreUnchanged

StorePut ==
    /\ \E key \in StoreKeys, payload \in StorePayloads :
         /\ ws_idempotency' =
              Store_put(ws_idempotency, key, payload, now, StoreTtl,
                        StoreMaxEntries)
         /\ reply' = [kind |-> "put", key |-> key, payload |-> payload]
         /\ applied' = [applied EXCEPT
                          ![key] = [created_at |-> now, payload |-> payload]]
    /\ UNCHANGED now
    /\ StoreUnchanged

NextStore == StoreClock \/ StoreGet \/ StorePut

SpecStore == InitStore /\ [][NextStore]_vars

-----------------------------------------------------------------------------
(* The idempotency store *)

KeysOf(entries) == {entries[i].key : i \in DOMAIN entries}

EntryOf(entries, key) ==
    entries[CHOOSE i \in DOMAIN entries : entries[i].key = key]

\* the keys whose entry is no older than the TTL now
LiveKeys ==
    {k \in KeysOf(ws_idempotency) :
        now - EntryOf(ws_idempotency, k).created_at <= StoreTtl}

\* what a get answers: the payload of a live entry, as it was put
GetAnswersLive ==
    reply'.kind = "get"
      => /\ KeysOf(ws_idempotency') = LiveKeys
         /\ \A k \in LiveKeys :
               EntryOf(ws_idempotency', k) = EntryOf(ws_idempotency, k)
         /\ reply'.payload =
              IF reply'.key \in LiveKeys
              THEN EntryOf(ws_idempotency, reply'.key).payload
              ELSE NoneStr

\* what a put leaves: the new entry, and of the live entries as many of the
\* newest as max_entries allows, unchanged
PutKeepsNewest ==
    reply'.kind = "put"
      => LET kept == KeysOf(ws_idempotency')
             evicted == (LiveKeys \ {reply'.key}) \ kept
         IN  /\ Len(ws_idempotency') <= StoreMaxEntries
             /\ Cardinality(kept) = Len(ws_idempotency')
             /\ reply'.key \in kept
             /\ EntryOf(ws_idempotency', reply'.key)
                  = [key |-> reply'.key, created_at |-> now,
                     payload |-> reply'.payload]
             /\ kept \ {reply'.key} \subseteq LiveKeys
             /\ \A k \in kept \ {reply'.key} :
                   EntryOf(ws_idempotency', k) = EntryOf(ws_idempotency, k)
             /\ Cardinality(evicted)
                  = Max(0, Cardinality(LiveKeys \cup {reply'.key})
                             - StoreMaxEntries)
             /\ \A e \in evicted, k \in kept :
                   EntryOf(ws_idempotency, e).created_at
                     <= EntryOf(ws_idempotency', k).created_at

\* every entry the store holds is the last put of its key
StoreHoldsLastPuts ==
    /\ Len(ws_idempotency) <= StoreMaxEntries
    /\ \A i \in DOMAIN ws_idempotency :
          /\ applied[ws_idempotency[i].key].payload # NoneStr
          /\ applied[ws_idempotency[i].key].created_at
               = ws_idempotency[i].created_at
          /\ applied[ws_idempotency[i].key].payload
               = ws_idempotency[i].payload
    /\ (reply.kind = "get" /\ reply.payload # NoneStr)
         => /\ applied[reply.key].payload # NoneStr
            /\ applied[reply.key].payload = reply.payload
            /\ now - applied[reply.key].created_at <= StoreTtl

\* C32: the idempotency store never returns an entry older than its TTL,
\* never holds more than max_entries entries after a put, evicting the
\* oldest-created entries first, and returns an entry that was put and is
\* neither expired nor evicted unchanged.
C32_StoreTtlAndCapacity ==
    []StoreHoldsLastPuts /\ [][GetAnswersLive /\ PutKeepsNewest]_vars

\* a put into a full store evicted the oldest live entry, and the get that
\* followed returned the newer one as it was put
C32_Witness ==
    /\ reply.kind = "get"
    /\ reply.payload # NoneStr
    /\ Len(ws_idempotency) = StoreMaxEntries
    /\ \E k \in StoreKeys \ KeysOf(ws_idempotency) :
          /\ applied[k].payload # NoneStr
          /\ now - applied[k].created_at <= StoreTtl
          /\ applied[k].created_at < applied[reply.key].created_at

-----------------------------------------------------------------------------
(* Session status and lesson lifecycle *)

\* C33: after every applied command or tick, session.status and
\* training_lesson.lifecycle_status agree: CREATED with DRAFT, IN_PROGRESS
\* with RUNNING, PAUSED with PAUSED, COMPLETED with COMPLETED.
C33_StatusAgreesWithLifecycle ==
    (reply.kind \in {"command", "tick"} /\ reply.code = 200)
      => LifecycleOf(db) = StatusAsLifecycle(db.status)

-----------------------------------------------------------------------------
(* Pauses: a lesson that the training lead starts, pauses, resumes and
   finishes while real time passes and idle ticks run.  applied keeps the
   real seconds the lesson has spent RUNNING *)

MaxPauseNow == 7

\* session.time_multiplier x10: 1.0 and 2.0
PauseMultipliers == {10, 20}

IsRunning(d) ==
    d.status = "IN_PROGRESS" /\ LifecycleOf(d) = LESSON_LIFECYCLE_RUNNING

InitPause ==
    /\ now = 0
    /\ db \in {[InitDb(scene, m) EXCEPT !.deployments = deployments] :
                  scene \in {EmptyScene, SceneOneSource},
                  m \in PauseMultipliers,
                  deployments \in {<<>>, <<DeploymentPayload("vehicle")>>}}
    /\ reply = NoReply
    /\ pc = [c \in Conns |-> "idle"]
    /\ frame = [c \in Conns |-> NoFrame]
    /\ session_lock = 0
    /\ ws_idempotency = EmptyStore
    /\ outbox = [c \in Conns |-> <<>>]
    /\ applied = [running_sec |-> 0]
    /\ radio_jobs = {}
    /\ command_times = [c \in Conns |-> <<>>]
    /\ connections_by_session = [s \in Sessions |-> {}]
    /\ current_session_id = [c \in Conns |-> NoneStr]
    /\ bundle = [c \in Conns |-> NoBundle]

\* utcnow() moves on by one loop interval or by more than one step
PauseClock ==
    /\ \E delta \in {SIMULATION_LOOP_INTERVAL_SEC,
                     SIMULATION_MAX_STEP_REAL_SEC + 1} :
          /\ now + delta <= MaxPauseNow
          /\ now' = now + delta
          /\ applied' = [running_sec |->
                            applied.running_sec
                              + (IF IsRunning(db) THEN delta ELSE 0)]
    /\ reply' = NoReply
    /\ UNCHANGED <<db, pc, frame, session_lock, ws_idempotency, outbox,
                   radio_jobs, command_times, connVars>>

\* a lesson command of the training lead
PauseCommand ==
    \E command \in LessonCommands :
      \E arg \in CommandArgs(command) :
        /\ CommitCommand(CommandTransaction(db, "lead", command, arg, now),
                         "lead", command)
        /\ UNCHANGED <<now, wsVars>>

NextPause == PauseClock \/ PauseCommand \/ LessonIdleTick

SpecPause == InitPause /\ [][NextPause]_vars

-----------------------------------------------------------------------------
(* Ticks of a lesson that is not running *)

\* real seconds of the running lesson that no tick has counted yet
PendingRealSec ==
    IF IsRunning(db)
    THEN now - OrDefault(db.lesson.last_tick_at,
                         OrDefault(db.lesson.started_at, now))
    ELSE 0

\* elapsed_game_sec is the multiplier times the real seconds spent RUNNING
\* that ticks have stepped: neither dropped, nor pending, nor paused ones
ElapsedCountsRunningTime ==
    OrDefault(db.lesson.elapsed_game_sec, 0) * 10
      = db.time_multiplier
          * (applied.running_sec - db.health.dropped_ticks_total
               - PendingRealSec)

\* a tick of a lesson that is not RUNNING leaves every row as it was
IdleTickOfStoppedLesson ==
    (reply'.kind = "tick" /\ ~ IsRunning(db))
      => (db' = db /\ ~ reply'.tick_applied)

\* a command applied to a lesson that is not RUNNING ran no catch-up tick
\* (start_lesson itself rebuilds the fire objects from the scene), and
\* resume_lesson restarts the tick clock without adding game time
CommandOfStoppedLesson ==
    (reply'.kind = "command" /\ ~ IsRunning(db))
      => /\ ~ reply'.tick_applied
         /\ db'.lesson.elapsed_game_sec = db.lesson.elapsed_game_sec
         /\ db'.health = db.health
         /\ reply'.command # "start_lesson"
              => /\ db'.fire_objects = db.fire_objects
                 /\ db'.vehicle_runtime = db.vehicle_runtime
         /\ (reply'.command = "resume_lesson" /\ reply'.code = 200)
              => (IsRunning(db') /\ db'.lesson.last_tick_at = now)

\* C34: while a lesson is not RUNNING a tick changes nothing, and real time
\* spent PAUSED is never added to elapsed_game_sec: the first tick after a
\* resume counts only the time since the resume.
C34_PausedTimeNotCounted ==
    /\ []ElapsedCountsRunningTime
    /\ [][IdleTickOfStoppedLesson /\ CommandOfStoppedLesson]_vars

\* a tick was applied to a lesson that had been paused for a while and
\* resumed, and that had ticked before the pause
C34_Witness ==
    /\ reply.kind = "tick"
    /\ reply.tick_applied
    /\ db.health.ticks_total >= 2
    /\ applied.running_sec < now
    /\ applied.running_sec > db.health.dropped_ticks_total

-----------------------------------------------------------------------------
(* Counters of a started lesson *)

\* C35: from start_lesson until the lesson is COMPLETED, elapsed_game_sec,
\* ticks_total and dropped_ticks_total never decrease and time_limit_sec
\* never changes, whatever commands are applied in between.
C35_CountersMonotone ==
    [][db.status \in {"IN_PROGRESS", "PAUSED"}
         => /\ OrDefault(db'.lesson.elapsed_game_sec, 0)
                 >= OrDefault(db.lesson.elapsed_game_sec, 0)
            /\ db'.health.ticks_total >= db.health.ticks_total
            /\ db'.health.dropped_ticks_total >= db.health.dropped_ticks_total
            /\ db'.lesson.time_limit_sec = db.lesson.time_limit_sec]_vars

-----------------------------------------------------------------------------
(* Rejected commands: a lesson with a short time limit, started at time 0,
   to which the socket of an HQ account and the socket of the training lead
   send pause_lesson and create_fire_object while time passes and idle
   ticks run *)

MaxRejectNow == 12

RejectSpecCommands == {"pause_lesson", "create_fire_object"}

RejectSpecArgs(command) ==
    IF command = "create_fire_object" THEN {"seat"} ELSE CommandArgs(command)

InitReject ==
    /\ now = 0
    /\ db \in {apply_start_lesson_command(
                   [InitDb(scene, 300) EXCEPT !.deployments = deployments],
                   StartTimeLimit("tl100"), 0).d :
                  scene \in {EmptyScene},
                  deployments \in {<<>>, <<DeploymentPayload("vehicle")>>}}
    /\ reply = NoReply
    /\ InitWs

\* a command frame of the account of socket c, up to the session lock
RejectReceive(c) ==
    /\ pc[c] = "idle"
    /\ Len(outbox[c]) < MaxFrames
    /\ ~ rate_limited(command_times[c], now)
    /\ \E command \in RejectSpecCommands, commandId \in CommandIds :
         \E arg \in RejectSpecArgs(command) :
           LET got == idempotency_get(
                          ws_idempotency,
                          command_cache_key(ScopeUser(c), commandId), now)
           IN  /\ command = "create_fire_object"
                    => Len(db.fire_objects) + InFlight(command)
                         < MaxFireObjects
               /\ ws_idempotency' = got.store
               /\ command_times' =
                    [command_times EXCEPT
                       ![c] = Append(rate_window(@, now), now)]
               /\ IF got.hit
                  THEN /\ outbox' = [outbox EXCEPT
                              ![c] = Append(@, Ack(commandId, "duplicate"))]
                       /\ UNCHANGED <<pc, frame>>
                  ELSE /\ pc' = [pc EXCEPT ![c] = "wait_lock"]
                       /\ frame' = [frame EXCEPT
                              ![c] = [user |-> ScopeUser(c),
                                      command |-> command, arg |-> arg,
                                      commandId |-> commandId]]
                       /\ UNCHANGED outbox
    /\ reply' = NoReply
    /\ UNCHANGED <<now, db, session_lock, applied, radio_jobs, connVars>>

\* utcnow() moves on by one simulation step
RejectClock ==
    /\ now + SIMULATION_MAX_STEP_REAL_SEC <= MaxRejectNow
    /\ now' = now + SIMULATION_MAX_STEP_REAL_SEC
    /\ reply' = NoReply
    /\ UNCHANGED <<db, wsVars>>

NextReject ==
    \/ RejectClock
    \/ \E c \in Conns : IdleTimeout(c)
    \/ \E c \in Conns : IdleTick(c)
    \/ \E c \in Conns : RejectReceive(c)
    \/ \E c \in Conns : AcquireLock(c)
    \/ \E c \in Conns : ApplyCommand(c)
    \/ \E c \in Conns : PutAck(c)

SpecReject == InitReject /\ [][NextReject]_vars

-----------------------------------------------------------------------------
(* Rejected commands leave nothing behind *)

\* the handler of socket c left the lock with an exception in this step
CommandRejected(c) == pc[c] = "locked" /\ pc'[c] = "idle"

\* the cache names a command only if a command of that key was committed
CacheOnlyOfApplied ==
    \A key \in CacheKeys : ws_idempotency[key] # None => applied[key] # <<>>

\* C36: a command that is rejected or raises while being applied leaves the
\* persisted session state as it was: neither partial effects of the
\* handler nor the catch-up tick executed before it are committed, and the
\* commandId is not recorded in the idempotency cache.
C36_RejectedCommandLeavesNothing ==
    /\ []CacheOnlyOfApplied
    /\ [][\A c \in Conns :
            CommandRejected(c)
              => /\ reply'.code # 200
                 /\ db' = db
                 /\ ws_idempotency' = ws_idempotency
                 /\ applied' = applied
                 /\ outbox'[c] = Append(outbox[c],
                                        ErrorFrame(frame[c].commandId,
                                                   reply'.code))]_vars

\* pause_lesson was answered 409 although the committed lesson is RUNNING:
\* the catch-up tick had completed the lesson by timeout, and was undone
C36_Witness ==
    /\ reply.kind = "command"
    /\ reply.command = "pause_lesson"
    /\ reply.user = "lead"
    /\ reply.code = 409
    /\ IsRunning(db)
    /\ db.lesson.elapsed_game_sec < db.lesson.time_limit_sec
    /\ ws_idempotency[command_cache_key("lead", "k1")] = None

-----------------------------------------------------------------------------
(* Order of the session_state frames *)

\* session.status along the commands of the connections: it only moves on
StatusRank(status) ==
    IF status = "CREATED" THEN 0
    ELSE IF status = "IN_PROGRESS" THEN 1
    ELSE IF status = "PAUSED" THEN 2
    ELSE 3

\* bundle a was read from a state committed before the state of bundle b:
\* the commands only add fire objects and radio logs and move the status on
BundleOlder(a, b) ==
    /\ a # b
    /\ StatusRank(a.status) <= StatusRank(b.status)
    /\ a.fire_objects <= b.fire_objects
    /\ a.radio_logs <= b.radio_logs

\* C37: each subscriber receives the session_state bundles of a session in
\* the order in which the ticks and commands were committed: it never
\* receives an older bundle after a newer one, including the bundles sent
\* on handshake and on subscribe_session.
C37_BundlesInCommitOrder ==
    \A c \in Conns :
      \A i, j \in DOMAIN outbox[c] :
        (/\ i < j
         /\ outbox[c][i].type = "session_state"
         /\ outbox[c][j].type = "session_state"
         /\ outbox[c][i].sessionId = "s1"
         /\ outbox[c][j].sessionId = "s1")
          => ~ BundleOlder(outbox[c][j].bundle, outbox[c][i].bundle)

-----------------------------------------------------------------------------
(* The bundle cache: session_state_bundle_cache[s1] under handshakes,
   commands and idle ticks, one handler at a time.  In this specification
   bundle is <<>> while the cache has no entry and <<payload>> else, and
   outbox holds the last session_state frame sent to each socket *)

MaxCacheNow == 8

\* SessionStateBundleRead.model_dump: session row, current snapshot, fire
\* objects and deployments
session_state_bundle(d) ==
    [session |-> [status |-> d.status],
     snapshot |-> [training_lesson |-> d.lesson,
                   radio_logs |-> d.radio_logs],
     fire_objects |-> d.fire_objects,
     resource_deployments |-> d.deployments]

\* patch_cached_radio_runtime: only the snapshot of a cached payload
patch_cached_radio_runtime(cache, d) ==
    IF cache = <<>> THEN cache
    ELSE <<[cache[1] EXCEPT !.snapshot = session_state_bundle(d).snapshot]>>

\* get_radio_optimized_session_state_payload: [payload, cache]
get_radio_optimized_session_state_payload(cache, d) ==
    IF cache = <<>>
    THEN [payload |-> session_state_bundle(d),
          cache |-> <<session_state_bundle(d)>>]
    ELSE [payload |-> cache[1], cache |-> cache]

\* the bundle read after the commit of `command`, and the cache after it
bundle_after_command(cache, d, command) ==
    IF command = "push_radio_message"
    THEN get_radio_optimized_session_state_payload(
             patch_cached_radio_runtime(cache, d), d)
    ELSE [payload |-> session_state_bundle(d),
          cache |-> <<session_state_bundle(d)>>]

InitCache ==
    /\ now = 0
    /\ db \in {StartedDb(scene, 300, <<>>) :
                  scene \in {EmptyScene, SceneOneSource}}
    /\ reply = NoReply
    /\ pc = [c \in Conns |-> "idle"]
    /\ frame = [c \in Conns |-> NoFrame]
    /\ session_lock = 0
    /\ ws_idempotency = EmptyStore
    /\ outbox = [c \in Conns |-> <<>>]
    /\ applied = [k \in CacheKeys |-> <<>>]
    /\ radio_jobs = {}
    /\ command_times = [c \in Conns |-> <<>>]
    /\ connections_by_session = [s \in Sessions |-> Conns]
    /\ current_session_id = [c \in Conns |-> "s1"]
    /\ bundle = <<>>

CacheUnchanged ==
    UNCHANGED <<pc, frame, session_lock, ws_idempotency, applied, radio_jobs,
                command_times, connections_by_session, current_session_id>>

CacheClock ==
    /\ now + SIMULATION_MAX_STEP_REAL_SEC <= MaxCacheNow
    /\ now' = now + SIMULATION_MAX_STEP_REAL_SEC
    /\ reply' = NoReply
    /\ UNCHANGED <<db, outbox, bundle>>
    /\ CacheUnchanged

\* get_session_state_payload of a handshake or subscribe_session of socket c
CacheRead(c) ==
    /\ bundle' = <<session_state_bundle(db)>>
    /\ outbox' = [outbox EXCEPT
                    ![c] = <<Frame("session_state", "s1",
                                   session_state_bundle(db), "initial")>>]
    /\ reply' = NoReply
    /\ UNCHANGED <<now, db>>
    /\ CacheUnchanged

\* the transaction of a command of socket c returned r: an applied command
\* is followed by the bundle read and the broadcast
CacheCommit(c, command, r) ==
    /\ db' = r.d
    /\ reply' = [kind |-> "command", code |-> r.code, user |-> "lead",
                 command |-> command, tick_applied |-> r.tick_applied]
    /\ IF r.code = 200
       THEN LET got == bundle_after_command(bundle, r.d, command)
            IN  /\ bundle' = got.cache
                /\ outbox' =
                     [o \in Conns |->
                        IF o = c /\ command = "push_radio_message"
                        THEN outbox[o]
                        ELSE <<Frame("session_state", "s1", got.payload,
                                     command)>>]
       ELSE UNCHANGED <<bundle, outbox>>

CacheCommand(c) ==
    /\ \E command \in WsSpecCommands :
         \E arg \in WsSpecArgs(command) :
           /\ command = "create_fire_object"
                => Len(db.fire_objects) < MaxFireObjects
           /\ command = "push_radio_message" => NextRadioId(db) <= MaxRadio
           /\ CacheCommit(c, command,
                          CommandTransaction(db, "lead", command, arg, now))
    /\ UNCHANGED now
    /\ CacheUnchanged

\* maybe_apply_runtime_tick_and_broadcast returned r
CacheTickCommit(r) ==
    /\ db' = r.d
    /\ reply' = [NoReply EXCEPT !.kind = "tick", !.code = r.code,
                                !.tick_applied = (r.code = 200)]
    /\ IF r.code = 200
       THEN /\ bundle' = <<session_state_bundle(r.d)>>
            /\ outbox' = [o \in Conns |->
                            <<Frame("session_state", "s1",
                                    session_state_bundle(r.d), "tick")>>]
       ELSE UNCHANGED <<bundle, outbox>>

CacheTick ==
    /\ db.health.ticks_total < MaxTicks
    /\ CacheTickCommit(TickTransaction(db, now))
    /\ UNCHANGED now
    /\ CacheUnchanged

NextCache ==
    \/ CacheClock
    \/ \E c \in Conns : CacheRead(c)
    \/ \E c \in Conns : CacheCommand(c)
    \/ CacheTick

SpecCache == InitCache /\ [][NextCache]_vars

-----------------------------------------------------------------------------
(* Broadcast bundles *)

\* C38: every session_state bundle broadcast after an applied command
\* equals the session state committed by that command (session row, current
\* snapshot, fire objects, deployments), including for push_radio_message,
\* whose bundle is served from the in-memory bundle cache.
C38_BroadcastIsCommittedState ==
    (reply.kind = "command" /\ reply.code = 200)
      => \A c \in Conns :
            (outbox[c] # <<>> /\ outbox[c][1].cause = reply.command)
              => outbox[c][1].bundle = session_state_bundle(db)

-----------------------------------------------------------------------------
(* SpecRadio: two accounts transmitting on radio channel "1"               *)

MaxRadioNow == 4
MaxRadioPushes == 3

RadioArgs == {"voice", "live", "live_end"}

\* the environment's RADIO_CHANNEL_HOLD_TIMEOUT_SEC: the default 0.9 or 2.0
RadioHoldTimeoutEnv10 == {RADIO_CHANNEL_HOLD_TIMEOUT_DEFAULT10, 20}

\* a session before its lesson, or a lesson started at 0
InitRadio ==
    /\ now = 0
    /\ \E env10 \in RadioHoldTimeoutEnv10,
          scene \in {EmptyScene, SceneOneSource},
          deployments \in {<<>>, <<DeploymentPayload("vehicle")>>},
          started \in BOOLEAN :
         LET created == [InitDb(scene, 10) EXCEPT
                            !.deployments = deployments,
                            !.radio_rows =
                                [i \in 1..MaxRadioPushes |-> "absent"],
                            !.radio_hold_timeout_env10 = env10]
         IN  db = IF started
                  THEN apply_start_lesson_command(created, None, 0).d
                  ELSE created
    /\ reply = NoReply
    /\ pc = [c \in Conns |-> "idle"]
    /\ frame = [c \in Conns |-> NoFrame]
    /\ session_lock = 0
    /\ ws_idempotency = EmptyStore
    /\ outbox = [c \in Conns |-> <<>>]
    /\ applied = [arg |-> NoneStr]
    /\ radio_jobs = {}
    /\ command_times = [c \in Conns |-> <<>>]
    /\ connections_by_session = [s \in Sessions |-> {}]
    /\ current_session_id = [c \in Conns |-> NoneStr]
    /\ bundle = [c \in Conns |-> NoBundle]

RadioClock ==
    /\ now + 1 <= MaxRadioNow
    /\ now' = now + 1
    /\ reply' = NoReply
    /\ UNCHANGED <<db, pc, frame, session_lock, ws_idempotency, outbox,
                   applied, radio_jobs, command_times, connVars>>

\* a push_radio_message of one of the accounts; applied keeps its payload
RadioPush ==
    \E user \in Users, arg \in RadioArgs :
       /\ NextRadioId(db) <= MaxRadioPushes
       /\ CommitCommand(CommandTransaction(db, user, "push_radio_message",
                                           arg, now),
                        user, "push_radio_message")
       /\ applied' = [arg |-> arg]
       /\ UNCHANGED <<now, pc, frame, session_lock, ws_idempotency, outbox,
                      radio_jobs, command_times, connVars>>

NextRadio == RadioClock \/ RadioPush

SpecRadio == InitRadio /\ [][NextRadio]_vars

-----------------------------------------------------------------------------
(* The hold of a radio channel *)

\* the user the push just answered is of, and the hold it met
PushAnswered == reply'.kind = "command" /\ reply'.command = "push_radio_message"

HoldAge10 == (now - db.channel_speakers.last_seen_at) * 10

HoldTimeout10 == RADIO_CHANNEL_HOLD_TIMEOUT_SEC10(db.radio_hold_timeout_env10)

HeldByOther(user) ==
    /\ db.channel_speakers.user_id \notin {NoneStr, user}
    /\ HoldAge10 < HoldTimeout10

ChannelFree(user) ==
    \/ db.channel_speakers.user_id \in {NoneStr, user}
    \/ HoldAge10 > HoldTimeout10

\* C39: a radio channel has at most one holder; while the holder's last chunk
\* is younger than the hold timeout a push of another user on the channel is
\* answered 409 and changes nothing; once the holder's transmission has ended
\* or the timeout has passed, a push of another user takes the channel.
C39_OneSpeakerPerChannel ==
    [][PushAnswered =>
         /\ HeldByOther(reply'.user) => reply'.code = 409 /\ db' = db
         /\ ChannelFree(reply'.user) =>
              /\ reply'.code = 200
              /\ db'.channel_speakers =
                   IF is_transmission_end(applied'.arg) THEN NoSpeaker
                   ELSE [user_id |-> reply'.user, last_seen_at |-> now]]_vars

-----------------------------------------------------------------------------
(* SpecObjects: the training lead draws and removes scene objects before    *)
(* the lesson                                                               *)

ObjectSpecCommands == {"upsert_scene_object", "remove_scene_object"}

ObjectSpecArgs(command) ==
    IF command = "upsert_scene_object"
    THEN {"fire", "fire_moved", "fire_f2", "fire_as_wall", "smoke",
          "new_fire", "wall"}
    ELSE {"remove_f1", "remove_f1_f2", "remove_s1"}

InitObjects ==
    /\ now = 0
    /\ db = InitDb(EmptyScene, 10)
    /\ reply = NoReply
    /\ InitWs

ObjectCommand ==
    \E command \in ObjectSpecCommands :
      \E arg \in ObjectSpecArgs(command) :
        /\ SceneWithinBounds(db, command)
        /\ CommitCommand(CommandTransaction(db, "lead", command, arg, now),
                         "lead", command)
        /\ UNCHANGED <<now, wsVars>>

NextObjects == AdvanceClock \/ ObjectCommand

SpecObjects == InitObjects /\ [][NextObjects]_vars

-----------------------------------------------------------------------------
(* Scene objects and their FireObject rows *)

\* <<floor, index>> of the fire sources and smoke zones with this id
SceneFireObjectsOf(scene, object_id) ==
    {p \in {<<i, j>> : i \in 1..Len(scene.floors), j \in 1..MaxSceneObjects} :
        /\ p[2] <= Len(scene.floors[p[1]].objects)
        /\ scene.floors[p[1]].objects[p[2]].id = object_id
        /\ scene.floors[p[1]].objects[p[2]].kind
               \in {"FIRE_SOURCE", "SMOKE_ZONE"}}

LinkedFireObjectsOf(fire_objects, object_id) ==
    {i \in 1..Len(fire_objects) :
        SceneObjectIdOf(fire_objects[i]) = object_id}

SceneObjectIds == NewObjectIds \cup {"f1", "s1", "w1", "h1"}

\* C40: after upsert_scene_object and remove_scene_object commands the
\* FireObject rows linked to scene objects correspond one-to-one to the fire
\* sources and smoke zones of the scene's floors: one row per such object,
\* no row without its object.
C40_FireObjectsMatchScene ==
    \A object_id \in SceneObjectIds :
       Cardinality(LinkedFireObjectsOf(db.fire_objects, object_id))
         = Cardinality(SceneFireObjectsOf(db.scene, object_id))

====
